---- MODULE Spec2Model ----
(***************************************************************************)
(* A model of opencode-antigravity-auth: the account pool (rotation        *)
(* cursor, rate-limit cooldowns, persistence) and the dispatch/retry loop  *)
(* of the loader's fetch() in src/plugin.ts.                               *)
(*                                                                         *)
(* Indices (cursor, activeIndex, endpoint index) are 0-based as in the     *)
(* code; TLA+ sequences are 1-based, so position i of the code is element  *)
(* i + 1 of a sequence.  Time is in milliseconds.                          *)
(***************************************************************************)
EXTENDS Integers, Sequences, FiniteSets, TLC

\* ------------------------------------------------------------------ bounds
\* the largest pool the fetch loop starts with
MaxAccounts == 2
\* the clock stops advancing here
MaxTime == 5000
\* the clock advances in steps of this many milliseconds
TickMs == 2500

\* ------------------------------------------------------- program constants
\* the length of ANTIGRAVITY_ENDPOINT_FALLBACKS (daily, autopush, prod)
NumEndpoints == 3
\* retryAfterMsFromResponse's default cooldown
DefaultRetryMs == 60000
\* the wait used when getMinWaitTimeMs() yields 0
AllLimitedFallbackMs == 60000

\* ----------------------------------------------------------------- helpers
MinOf(S) == CHOOSE x \in S : \A y \in S : x <= y
MaxOf(S) == CHOOSE x \in S : \A y \in S : x >= y
Min2(a, b) == IF a <= b THEN a ELSE b
Max2(a, b) == IF a >= b THEN a ELSE b

\* Math.min(max, Math.max(min, Math.floor(value))); every index of the model
\* is a finite integer, on which Number.isFinite holds and floor is the identity
clampInt(value, min, max) == Min2(max, Max2(min, value))

NoEmail == "none"
NoProject == "none"

\* a refreshToken of a stored record that is not a string
NoToken == "missing"

\* ------------------------------------------------------------ data model
\* AccountMetadata, as stored in the accounts file
Meta(a) ==
  [ email |-> a.email, refreshToken |-> a.refreshToken, projectId |-> a.projectId,
    addedAt |-> a.addedAt, lastUsed |-> a.lastUsed,
    isRateLimited |-> a.isRateLimited, rateLimitResetTime |-> a.rateLimitResetTime ]

\* an account of the in-memory pool: the metadata plus the object's identity
Managed(m, id) ==
  [ id |-> id, email |-> m.email, refreshToken |-> m.refreshToken,
    projectId |-> m.projectId, addedAt |-> m.addedAt, lastUsed |-> m.lastUsed,
    isRateLimited |-> m.isRateLimited, rateLimitResetTime |-> m.rateLimitResetTime ]

\* the accounts file: missing, or { version: 1, accounts, activeIndex }
NoFile == [ exists |-> FALSE, readable |-> TRUE, accounts |-> <<>>, activeIndex |-> 0 ]
File(accs, idx) ==
  [ exists |-> TRUE, readable |-> TRUE, accounts |-> accs, activeIndex |-> idx ]

\* a file that exists but that loadAccounts cannot use: reading it fails, it
\* is not JSON, or it has another version
Unreadable(file) == [ file EXCEPT !.readable = FALSE ]

\* ------------------------------------------------- Account Pool Manager
\* an account is selectable unless its cooldown has not elapsed
Eligible(acc, t) == ~acc.isRateLimited \/ t >= acc.rateLimitResetTime

\* pickNext(): round-robin from the cursor, skipping accounts under
\* cooldown; the index returned, or -1 when none is eligible
pickNextIndex(accs, cur, t) ==
  LET n == Len(accs)
      offs == { k \in 0..(n - 1) : Eligible(accs[((cur + k) % n) + 1], t) }
  IN  IF n = 0 \/ offs = {} THEN -1 ELSE (cur + MinOf(offs)) % n

\* a pickNext() that leaves the cursor on the returned index
cursorAfterPickStuck(accs, idx) == idx

\* pickNext() advances the cursor past the returned index
cursorAfterPick(accs, idx) == (idx + 1) % Len(accs)

\* a markRateLimited that takes the duration for the reset time
markRateLimitedRelative(accs, idx, retryAfterMs, t) ==
  [ accs EXCEPT ![idx + 1].isRateLimited = TRUE,
                ![idx + 1].rateLimitResetTime = retryAfterMs ]

\* markRateLimited(account, retryAfterMs)
markRateLimited(accs, idx, retryAfterMs, t) ==
  [ accs EXCEPT ![idx + 1].isRateLimited = TRUE,
                ![idx + 1].rateLimitResetTime = t + retryAfterMs ]

\* the position of the account object in the pool, or -1
IndexOfId(accs, id) ==
  IF \E i \in 1..Len(accs) : accs[i].id = id
    THEN (CHOOSE i \in 1..Len(accs) : accs[i].id = id) - 1
    ELSE -1

RemoveAt(s, idx) == SubSeq(s, 1, idx) \o SubSeq(s, idx + 2, Len(s))

\* removeAccount(account): identity-based removal
removeAccount(accs, id) ==
  IF IndexOfId(accs, id) = -1 THEN accs ELSE RemoveAt(accs, IndexOfId(accs, id))

\* a removeAccount that leaves the cursor where it was
cursorAfterRemoveUnclamped(cur, newLen) == cur

\* removeAccount re-clamps the cursor
cursorAfterRemove(cur, newLen) ==
  IF newLen = 0 THEN 0 ELSE clampInt(cur, 0, newLen - 1)

\* getMinWaitTimeMs(): the smallest remaining cooldown across the pool
Remaining(acc, t) ==
  IF acc.isRateLimited /\ acc.rateLimitResetTime > t
    THEN acc.rateLimitResetTime - t ELSE 0

\* a getMinWaitTimeMs() that returns the largest remaining cooldown
getMaxWaitTimeMs(accs, t) ==
  IF Len(accs) = 0 THEN 0
  ELSE MaxOf({ Remaining(accs[i], t) : i \in 1..Len(accs) })

getMinWaitTimeMs(accs, t) ==
  IF Len(accs) = 0 THEN 0
  ELSE MinOf({ Remaining(accs[i], t) : i \in 1..Len(accs) })

\* updateFromAuth(account, auth): merges the auth record's refresh parts
updateFromAuth(accs, idx, refreshToken, projectId) ==
  [ accs EXCEPT ![idx + 1].refreshToken = refreshToken,
                ![idx + 1].projectId = projectId ]

\* what saveToDisk() hands to saveAccounts
toStorage(accs, cur) ==
  File([ i \in 1..Len(accs) |-> Meta(accs[i]) ], cur)

\* ---------------------------------------------------------------- storage
\* a comparison that never finds the later record newer
IsNewerNever(curr, exist) == FALSE

\* isNewer of deduplicateAccountsByEmail: higher lastUsed, then higher addedAt
IsNewer(curr, exist) ==
  \/ curr.lastUsed > exist.lastUsed
  \/ (curr.lastUsed = exist.lastUsed /\ curr.addedAt > exist.addedAt)

\* emailToNewestIndex.get(email) after the first pass has read the first n
\* accounts (a position of the sequence; 0: no entry)
RECURSIVE NewestIndex(_, _, _)
NewestIndex(accs, email, n) ==
  IF n = 0 THEN 0
  ELSE LET prev == NewestIndex(accs, email, n - 1) IN
       IF accs[n].email # email THEN prev
       ELSE IF prev = 0 THEN n
       ELSE IF IsNewer(accs[n], accs[prev]) THEN n
       ELSE prev

\* indicesToKeep: every account without email, and the newest of each email
IndicesToKeep(accs) ==
  { i \in 1..Len(accs) : accs[i].email = NoEmail }
  \cup { NewestIndex(accs, accs[i].email, Len(accs)) :
           i \in { j \in 1..Len(accs) : accs[j].email # NoEmail } }

\* the elements of s at the positions in keep, in their order
RECURSIVE KeepAt(_, _, _)
KeepAt(s, keep, n) ==
  IF n = 0 THEN << >>
  ELSE IF n \in keep THEN Append(KeepAt(s, keep, n - 1), s[n])
  ELSE KeepAt(s, keep, n - 1)

deduplicateAccountsByEmail(accs) == KeepAt(accs, IndicesToKeep(accs), Len(accs))

\* what loadAccounts resolves to: null, or the deduplicated accounts with
\* the activeIndex clamped to them
NullStorage == [ isNull |-> TRUE, accounts |-> << >>, activeIndex |-> 0 ]

\* validAccounts: the records whose refreshToken is a string
validAccounts(accs) == SelectSeq(accs, LAMBDA a : a.refreshToken # NoToken)

loadAccounts(file) ==
  IF ~file.exists \/ ~file.readable THEN NullStorage
  ELSE LET dedup == deduplicateAccountsByEmail(validAccounts(file.accounts)) IN
       [ isNull |-> FALSE,
         accounts |-> dedup,
         activeIndex |-> IF Len(dedup) > 0
                           THEN Max2(Min2(file.activeIndex, Len(dedup) - 1), 0)
                           ELSE 0 ]

\* a Map<string, number>: a function on the keys it holds; get() of a key
\* it does not hold is -1 (undefined)
MapGet(m, k) == IF k \in DOMAIN m THEN m[k] ELSE -1
MapSet(m, k, v) == [ x \in (DOMAIN m) \cup { k } |-> IF x = k THEN v ELSE m[x] ]
\* a delete that removes nothing
MapDeleteNothing(m, k) == m
\* Map.prototype.delete
MapDelete(m, k) == [ x \in (DOMAIN m) \ { k } |-> m[x] ]

\* an indexByEmail that is never filled
IndexByEmailEmpty(accs) == [ k \in {} |-> 0 ]

\* an indexByRefreshToken that is never filled
IndexByRefreshTokenEmpty(accs) == [ k \in {} |-> 0 ]

\* indexByRefreshToken and indexByEmail as the first loop of
\* persistAccountPool leaves them: the last index of each key
IndexByRefreshToken(accs) ==
  [ k \in { accs[i].refreshToken : i \in 1..Len(accs) } \ { "" } |->
      MaxOf({ i - 1 : i \in { j \in 1..Len(accs) : accs[j].refreshToken = k } }) ]

IndexByEmail(accs) ==
  [ k \in { accs[i].email : i \in 1..Len(accs) } \ { NoEmail } |->
      MaxOf({ i - 1 : i \in { j \in 1..Len(accs) : accs[j].email = k } }) ]

\* a successful OAuth result: its email and the parts of its refresh string
OAuthResult(email, refreshToken, projectId) ==
  [ email |-> email, refreshToken |-> refreshToken, projectId |-> projectId ]

\* one iteration of the merge loop of persistAccountPool
MergeOne(st, r, t) ==
  IF r.refreshToken = "" THEN st
  ELSE
    LET existingByEmail ==
          IF r.email # NoEmail THEN MapGet(st.indexByEmail, r.email) ELSE -1
        existingByToken == MapGet(st.indexByRefreshToken, r.refreshToken)
        existingIndex ==
          IF existingByEmail # -1 THEN existingByEmail ELSE existingByToken
    IN
    IF existingIndex = -1
      THEN [ accounts |->
               Append(st.accounts,
                 [ email |-> r.email, refreshToken |-> r.refreshToken,
                   projectId |-> r.projectId, addedAt |-> t, lastUsed |-> t,
                   isRateLimited |-> FALSE, rateLimitResetTime |-> 0 ]),
             indexByRefreshToken |->
               MapSet(st.indexByRefreshToken, r.refreshToken, Len(st.accounts)),
             indexByEmail |->
               IF r.email # NoEmail
                 THEN MapSet(st.indexByEmail, r.email, Len(st.accounts))
                 ELSE st.indexByEmail ]
      ELSE
        LET existing == st.accounts[existingIndex + 1]
            updated ==
              [ existing EXCEPT
                  !.email = IF r.email # NoEmail THEN r.email ELSE existing.email,
                  !.refreshToken = r.refreshToken,
                  !.projectId = IF r.projectId # NoProject THEN r.projectId
                                ELSE existing.projectId,
                  !.lastUsed = t,
                  !.isRateLimited = FALSE,
                  !.rateLimitResetTime = 0 ]
        IN [ accounts |-> [ st.accounts EXCEPT ![existingIndex + 1] = updated ],
             indexByRefreshToken |->
               IF existing.refreshToken # r.refreshToken
                 THEN MapSet(MapDelete(st.indexByRefreshToken, existing.refreshToken),
                             r.refreshToken, existingIndex)
                 ELSE st.indexByRefreshToken,
             indexByEmail |-> st.indexByEmail ]

RECURSIVE MergeResults(_, _, _)
MergeResults(st, results, t) ==
  IF results = << >> THEN st
  ELSE MergeResults(MergeOne(st, Head(results), t), Tail(results), t)

\* the accounts persistAccountPool ends its merge loop with
MergedAccounts(file, results, replaceAll, t) ==
  LET stored == IF replaceAll THEN NullStorage ELSE loadAccounts(file)
  IN  MergeResults([ accounts |-> stored.accounts,
                     indexByRefreshToken |-> IndexByRefreshToken(stored.accounts),
                     indexByEmail |-> IndexByEmail(stored.accounts) ],
                   results, t).accounts

\* an activeIndex that is 0 in both modes
savedActiveIndexZero(file, replaceAll, len) == 0

\* the activeIndex persistAccountPool saves: 0 on a fresh start, else the
\* stored one, clamped to the merged accounts
savedActiveIndex(file, replaceAll, len) ==
  LET stored == IF replaceAll THEN NullStorage ELSE loadAccounts(file)
  IN  clampInt(IF replaceAll \/ stored.isNull THEN 0 ELSE stored.activeIndex,
               0, len - 1)

\* the accounts file after persistAccountPool(results, replaceAll) whose
\* saveAccounts succeeds
persistAccountPool(file, results, replaceAll, t) ==
  IF results = << >> THEN file
  ELSE LET merged == MergedAccounts(file, results, replaceAll, t) IN
       IF Len(merged) = 0 THEN file
       ELSE File(merged, savedActiveIndex(file, replaceAll, Len(merged)))

\* ------------------------------------------------------------- responses
\* a response header as Number.parseInt reads it: absent, not a number, or
\* an integer
NoHeader == [ kind |-> "none", value |-> 0 ]
NaNHeader == [ kind |-> "nan", value |-> 0 ]
IntHeader(n) == [ kind |-> "int", value |-> n ]

\* the retry hints the upstream sends in the model
RetryAfterMsHeaders == { NoHeader, NaNHeader, IntHeader(0), IntHeader(2500) }
RetryAfterHeaders == { NoHeader, IntHeader(5) }

\* the statuses the upstream answers with in the model
Statuses == { 200, 400, 403, 404, 429, 500 }

\* a check that lets a parsed 0 through
ParsedNonNegative(h) == h.kind = "int" /\ h.value >= 0

\* a positive integer parsed from a header that is present
ParsedPositive(h) == h.kind = "int" /\ h.value > 0

\* a retry duration that reads the Retry-After seconds as milliseconds
retryAfterMsFromResponseUnscaled(resp) ==
  IF ParsedPositive(resp.retryAfterMs) THEN resp.retryAfterMs.value
  ELSE IF ParsedPositive(resp.retryAfter) THEN resp.retryAfter.value
  ELSE DefaultRetryMs

retryAfterMsFromResponse(resp) ==
  IF ParsedPositive(resp.retryAfterMs) THEN resp.retryAfterMs.value
  ELSE IF ParsedPositive(resp.retryAfter) THEN resp.retryAfter.value * 1000
  ELSE DefaultRetryMs

\* a response of the upstream: the endpoint and account of its request
\* stand for its body
Response(status, e, a, hMs, hSec) ==
  [ status |-> status, endpoint |-> e, account |-> a,
    retryAfterMs |-> hMs, retryAfter |-> hSec ]

Responses(e, a) ==
  { Response(s, e, a, NoHeader, NoHeader) : s \in Statuses \ {429} }
  \cup { Response(429, e, a, hMs, hSec) :
           hMs \in RetryAfterMsHeaders, hSec \in RetryAfterHeaders }

\* FailureContext: the response kept in lastFailure (null: status 0)
NoFailure ==
  [ status |-> 0, endpoint |-> 0, retryAfterMs |-> NoHeader, retryAfter |-> NoHeader ]
Failure(resp) ==
  [ status |-> resp.status, endpoint |-> resp.endpoint,
    retryAfterMs |-> resp.retryAfterMs, retryAfter |-> resp.retryAfter ]

\* how a call ended
NoResult == [ kind |-> "none", status |-> 0, endpoint |-> 0, account |-> 0, error |-> "" ]
Returned(resp) ==
  [ kind |-> "response", status |-> resp.status, endpoint |-> resp.endpoint,
    account |-> resp.account, error |-> "" ]
Thrown(msg) ==
  [ kind |-> "error", status |-> 0, endpoint |-> 0, account |-> 0, error |-> msg ]
PassedThrough ==
  [ kind |-> "passthrough", status |-> 0, endpoint |-> 0, account |-> 0, error |-> "" ]

\* ---------------------------------------------- decisions of the fetch loop
\* a fallback test that lets a 404 through
shouldRetryEndpointWithout404(status) == status = 403 \/ status >= 500

\* the statuses that fall back to the next endpoint
shouldRetryEndpoint(status) == status = 403 \/ status = 404 \/ status >= 500

\* a 429 branch that waits whatever the size of the pool
switchesOn429Never(count) == FALSE

\* after a 429: more than one account switches accounts, one account waits
switchesOn429(count) == count > 1

\* a sleep that does not observe its signal
sleepIgnoringSignal(ms, start, isAborted, t) ==
  IF t >= start + ms THEN "resolve" ELSE "pending"

\* sleep(ms, signal) started at time start: rejects when the signal is or
\* becomes aborted, resolves when the timer fires first
sleep(ms, start, isAborted, t) ==
  IF isAborted THEN "reject"
  ELSE IF t >= start + ms THEN "resolve"
  ELSE "pending"

\* a pool that is never taken for empty
poolEmptyNever(count) == FALSE

\* accountManager.getAccountCount() === 0
poolEmpty(count) == count = 0

\* a refresh catch that takes no error for a revocation
isInvalidGrantNever(err) == FALSE

\* error instanceof AntigravityTokenRefreshError && error.code === "invalid_grant"
isInvalidGrant(err) == err = "invalid_grant"

\* ----------------------------------------- thinking signatures (request.ts)
\* A string is a sequence of symbols: ":" and " " stand for themselves, any
\* other symbol for a run of characters holding neither; "" is << >>, and
\* undefined, which the code treats as "", is << >> too.
\* the shortest signature hasSignedThinkingPart accepts
MIN_SIGNATURE_LENGTH == 50

\* no signature: undefined or ""
NoSignature == "none"
\* the signatures upstream issues; "s0" is shorter than MIN_SIGNATURE_LENGTH
Signatures == { "s0", "s1", "s2" }
SignatureLength(sig) ==
  CASE sig = NoSignature -> 0
    [] sig = "s0" -> MIN_SIGNATURE_LENGTH - 1
    [] OTHER -> MIN_SIGNATURE_LENGTH

\* a part of a content (Gemini dialect) or a block of a message (Anthropic
\* dialect): text, thinking, a tool call or a tool result
Part(kind, text, sig) == [ kind |-> kind, text |-> text, signature |-> sig ]
ThinkingPart(text, sig) == Part("thinking", text, sig)
TextPart(text) == Part("text", text, NoSignature)
ToolUsePart == Part("toolUse", << >>, NoSignature)
ToolResultPart == Part("toolResult", << >>, NoSignature)
Message(role, parts) == [ role |-> role, parts |-> parts ]

\* String.prototype.trim, toLowerCase and includes("claude")
RECURSIVE trimStart(_)
trimStart(s) == IF s # << >> /\ Head(s) = " " THEN trimStart(Tail(s)) ELSE s
RECURSIVE trimEnd(_)
trimEnd(s) ==
  IF s # << >> /\ s[Len(s)] = " " THEN trimEnd(SubSeq(s, 1, Len(s) - 1)) ELSE s
trim(s) == trimEnd(trimStart(s))
toLowerCase(s) == [ i \in 1..Len(s) |-> IF s[i] = "CLAUDE" THEN "claude" ELSE s[i] ]
includes(s, sym) == \E i \in 1..Len(s) : s[i] = sym

\* PLUGIN_SESSION_ID, drawn once per process
PLUGIN_SESSION_ID == << "-uuid" >>

\* buildSignatureSessionKey(sessionId, model, conversationKey, projectKey)
buildSignatureSessionKey(sessionId, model, conversationKey, projectKey) ==
  LET modelKey == IF trim(model) # << >> THEN toLowerCase(model) ELSE << "unknown" >>
      projectPart == IF trim(projectKey) # << >> THEN trim(projectKey) ELSE << "default" >>
      conversationPart ==
        IF trim(conversationKey) # << >> THEN trim(conversationKey) ELSE << "default" >>
  IN  sessionId \o << ":" >> \o modelKey \o << ":" >> \o projectPart \o << ":" >>
        \o conversationPart

\* shouldCacheThinkingSignatures(model)
shouldCacheThinkingSignatures(model) == includes(toLowerCase(model), "claude")
\* isClaudeThinkingModel of prepareAntigravityRequest
isClaudeThinkingModel(model) ==
  includes(toLowerCase(model), "claude") /\ includes(toLowerCase(model), "thinking")

\* the signature cache of ./cache: one signature per session key and text
cacheSignature(cache, key, text, sig) ==
  { e \in cache : ~(e.key = key /\ e.text = text) }
    \cup { [ key |-> key, text |-> text, signature |-> sig ] }
getCachedSignature(cache, key, text) ==
  IF \E e \in cache : e.key = key /\ e.text = text
    THEN (CHOOSE e \in cache : e.key = key /\ e.text = text).signature
    ELSE NoSignature

\* a value of lastSignedThinkingBySessionKey
SignedThinking(text, sig) == [ text |-> text, signature |-> sig ]

\* a cache that files every signature under the process, not the session key
cacheThinkingPartShared(st, key, part) ==
  LET buffer == IF part.kind = "thinking" THEN st.buffer \o part.text ELSE st.buffer
  IN  IF part.signature # NoSignature /\ buffer # << >>
        THEN [ cache |-> cacheSignature(st.cache, PLUGIN_SESSION_ID, buffer, part.signature),
               last |-> [ k \in DOMAIN st.last \cup { PLUGIN_SESSION_ID } |->
                            IF k = PLUGIN_SESSION_ID
                              THEN SignedThinking(buffer, part.signature) ELSE st.last[k] ],
               buffer |-> buffer ]
        ELSE [ st EXCEPT !.buffer = buffer ]

\* cacheThinkingSignatures over the parts of one candidate, in order: the
\* thinking text read so far is appended to the candidate's buffer, and a
\* part carrying a signature stores the buffer with it.  st is the cache, the
\* last signed thinking per key and the buffer.
cacheThinkingPart(st, key, part) ==
  LET buffer == IF part.kind = "thinking" THEN st.buffer \o part.text ELSE st.buffer
  IN  IF part.signature # NoSignature /\ buffer # << >>
        THEN [ cache |-> cacheSignature(st.cache, key, buffer, part.signature),
               last |-> MapSet(st.last, key, SignedThinking(buffer, part.signature)),
               buffer |-> buffer ]
        ELSE [ st EXCEPT !.buffer = buffer ]
RECURSIVE cacheThinkingSignatures(_, _, _)
cacheThinkingSignatures(st, key, parts) ==
  IF parts = << >> THEN st
  ELSE cacheThinkingSignatures(cacheThinkingPart(st, key, Head(parts)), key, Tail(parts))

\* isGeminiThinkingPart, isGeminiToolUsePart and their Anthropic counterparts
isThinking(part) == part.kind = "thinking"
isOther(part) == part.kind # "thinking"
isGeminiToolUsePart(part) == part.kind = "toolUse"
isMessageToolUse(part) == part.kind \in { "toolUse", "toolResult" }
hasSignedThinkingPart(part) ==
  part.kind = "thinking" /\ SignatureLength(part.signature) >= MIN_SIGNATURE_LENGTH

\* ensureThoughtSignature: a thinking part with text and no signature takes
\* the signature cached for its exact text
ensureThoughtSignature(cache, part, key) ==
  IF part.text # << >> /\ part.signature = NoSignature
       /\ getCachedSignature(cache, key, part.text) # NoSignature
    THEN [ part EXCEPT !.signature = getCachedSignature(cache, key, part.text) ]
    ELSE part
\* ensureMessageThinkingSignature: so does one whose signature is too short
ensureMessageThinkingSignature(cache, block, key) ==
  IF SignatureLength(block.signature) < MIN_SIGNATURE_LENGTH /\ block.text # << >>
       /\ getCachedSignature(cache, key, block.text) # NoSignature
    THEN [ block EXCEPT !.signature = getCachedSignature(cache, key, block.text) ]
    ELSE block

\* a repair that signs the injected block with no signature
injectedThinkingUnsigned(lastThinking) == ThinkingPart(lastThinking.text, NoSignature)

\* the block the repair puts in front of a tool-calling turn
injectedThinking(lastThinking) == ThinkingPart(lastThinking.text, lastThinking.signature)

\* one content of ensureThinkingBeforeToolUseInContents / one message of
\* ensureThinkingBeforeToolUseInMessages (dialect "messages")
ensureThinkingBeforeToolUse(cache, last, content, key, dialect) ==
  LET hasToolUse ==
        \E i \in 1..Len(content.parts) :
          IF dialect = "contents" THEN isGeminiToolUsePart(content.parts[i])
          ELSE isMessageToolUse(content.parts[i])
      found == SelectSeq(content.parts, isThinking)
      thinkingParts ==
        [ i \in 1..Len(found) |->
            IF dialect = "contents" THEN ensureThoughtSignature(cache, found[i], key)
            ELSE ensureMessageThinkingSignature(cache, found[i], key) ]
      otherParts == SelectSeq(content.parts, isOther)
      hasSignedThinking ==
        \E i \in 1..Len(thinkingParts) : hasSignedThinkingPart(thinkingParts[i])
  IN  IF content.role # "model" \/ ~hasToolUse THEN content
      ELSE IF hasSignedThinking
        THEN [ content EXCEPT !.parts = thinkingParts \o otherParts ]
      ELSE IF key \notin DOMAIN last THEN content
      ELSE [ content EXCEPT !.parts = << injectedThinking(last[key]) >> \o otherParts ]

ensureThinkingBeforeToolUseInContents(cache, last, contents, key) ==
  [ i \in 1..Len(contents) |->
      ensureThinkingBeforeToolUse(cache, last, contents[i], key, "contents") ]
ensureThinkingBeforeToolUseInMessages(cache, last, messages, key) ==
  [ i \in 1..Len(messages) |->
      ensureThinkingBeforeToolUse(cache, last, messages[i], key, "messages") ]

\* ------------------------------------------------ thinking recovery module
isToolResult(part) == part.kind = "toolResult"
isToolResultMessage(msg) ==
  msg.role = "user" /\ \E i \in 1..Len(msg.parts) : isToolResult(msg.parts[i])
messageHasThinking(msg) == \E i \in 1..Len(msg.parts) : isThinking(msg.parts[i])

\* analyzeConversationState(contents): the fields needsThinkingRecovery reads
analyzeConversationState(contents) ==
  LET realUsers == { i \in 1..Len(contents) :
                       contents[i].role = "user" /\ ~isToolResultMessage(contents[i]) }
      lastRealUserIdx == IF realUsers = {} THEN 0 ELSE MaxOf(realUsers)
      turnModels == { i \in 1..Len(contents) :
                        contents[i].role = "model" /\ i > lastRealUserIdx }
      turnStartIdx == IF turnModels = {} THEN 0 ELSE MinOf(turnModels)
  IN  [ inToolLoop |-> contents # << >> /\ isToolResultMessage(contents[Len(contents)]),
        turnStartIdx |-> turnStartIdx,
        turnHasThinking |-> turnStartIdx # 0 /\ messageHasThinking(contents[turnStartIdx]) ]

\* a recovery that closes every tool loop, whatever its turn holds
needsThinkingRecoveryInToolLoop(state) == state.inToolLoop

needsThinkingRecovery(state) == state.inToolLoop /\ ~state.turnHasThinking

\* a recovery that strips nothing
stripNoThinkingBlocks(contents) == contents

\* stripAllThinkingBlocks(contents): a content made of thinking only is kept
stripAllThinkingBlocks(contents) ==
  [ i \in 1..Len(contents) |->
      LET filteredParts == SelectSeq(contents[i].parts, isOther)
      IN  IF filteredParts = << >> /\ contents[i].parts # << >> THEN contents[i]
          ELSE [ contents[i] EXCEPT !.parts = filteredParts ] ]

\* countTrailingToolResults(contents)
RECURSIVE countTrailingToolResults(_)
countTrailingToolResults(contents) ==
  IF contents = << >> THEN 0
  ELSE LET msg == contents[Len(contents)]
           functionResponses == Len(SelectSeq(msg.parts, isToolResult))
       IN  IF msg.role = "user" /\ functionResponses > 0
             THEN functionResponses
                    + countTrailingToolResults(SubSeq(contents, 1, Len(contents) - 1))
             ELSE 0

\* String(n) of a small count
DigitNames == << "1", "2", "3", "4" >>
\* the synthetic messages of closeToolLoopForThinking
syntheticModel(toolResultCount) ==
  Message("model",
          << TextPart(IF toolResultCount = 0 THEN << "[Processing previous context.]" >>
                      ELSE IF toolResultCount = 1 THEN << "[Tool execution completed.]" >>
                      ELSE << "[", DigitNames[toolResultCount],
                              " tool executions completed.]" >>) >>)
syntheticUser == Message("user", << TextPart(<< "[Continue]" >>) >>)

\* closeToolLoopForThinking(contents)
closeToolLoopForThinking(contents) ==
  LET strippedContents == stripAllThinkingBlocks(contents)
  IN  strippedContents \o << syntheticModel(countTrailingToolResults(strippedContents)),
                             syntheticUser >>

\* the thinking part of prepareAntigravityRequest, on a payload whose
\* unsigned thinking has been filtered: the repair from the last signed
\* thinking, then the last-resort recovery, which applies to contents only
\* and forgets the session's last signed thinking
prepareThinking(cache, last, model, key, contents, dialect) ==
  LET injected ==
        IF ~isClaudeThinkingModel(model) THEN contents
        ELSE IF dialect = "contents"
          THEN ensureThinkingBeforeToolUseInContents(cache, last, contents, key)
        ELSE ensureThinkingBeforeToolUseInMessages(cache, last, contents, key)
      recover == /\ isClaudeThinkingModel(model)
                 /\ dialect = "contents"
                 /\ needsThinkingRecovery(analyzeConversationState(injected))
  IN  [ contents |-> IF recover THEN closeToolLoopForThinking(injected) ELSE injected,
        recovered |-> recover,
        last |-> IF recover THEN MapDelete(last, key) ELSE last ]

\* transformAntigravityResponse(response, streaming, ..., effectiveModel,
\* sessionId, ...): only a successful streamed event stream goes through the
\* transformer that caches signatures, and only under a truthy sessionId
transformAntigravityResponse(cache, last, parts, streaming, contentType, model, sessionId) ==
  IF /\ streaming
     /\ contentType = "text/event-stream"
     /\ shouldCacheThinkingSignatures(model)
     /\ sessionId # << >>
    THEN cacheThinkingSignatures([ cache |-> cache, last |-> last, buffer |-> << >> ],
                                 sessionId, parts)
    ELSE [ cache |-> cache, last |-> last, buffer |-> << >> ]

\* a number passed where a string is expected: 0 is falsy as "" is
NumberAsKey(n) == IF n = 0 THEN << >> ELSE << DigitNames[n] >>


\* ------------------------------------------------------------------ state
VARIABLES
  now,          \* Date.now()
  accounts,     \* the in-memory pool of the AccountManager
  cursor,       \* its rotation cursor
  disk,         \* the accounts file
  hostAuth,     \* the host's stored credential: "oauth", "cleared" (type oauth with
                \* empty tokens) or "apikey"
  hostWritable, \* whether client.auth.set succeeds
  payload,      \* the payload a transformation of the request or of the response is
                \* applied to, and what it made of it
  pc,           \* where the fetch call stands
  acct,         \* id of the account the pass runs with (0: none)
  ep,           \* i, the endpoint index of the pass
  lastFailure,  \* lastFailure
  lastError,    \* lastError ("" : null)
  result,       \* what the call returned or threw
  aborted,      \* abortSignal.aborted
  abortedAt,    \* where the call stood when its signal fired ("none": not fired)
  sleepStart,   \* when the pending sleep() was started
  sleepMs,      \* the ms the pending sleep() was started with
  tried,        \* endpoints fetch() was called for in this pass
  pending,      \* endpoints whose fetch() promise has not settled yet
  exhausted,    \* ids of accounts whose pass failed on every endpoint
  evicted,      \* ids of accounts removeAccount removed
  picked,       \* id of the account the last pickNext() returned (0: none)
  pickLog,      \* ids returned by the latest pickNext() calls made in a row
                \* on an unchanged pool with no account under cooldown
  cooldownUntil,\* per account id: the end t0 + t of its last markRateLimited
  logins,       \* how many logins have persisted their result
  store,        \* the arguments and the result of the last storage function applied
  diskWritable, \* whether the next write of the accounts file succeeds
  diskFaults,   \* how many writes of the accounts file have been made to fail
  signatureCache, \* the signature cache: per session key, the signature of a thinking text
  lastSignedThinkingBySessionKey, \* lastSignedThinkingBySessionKey
  thinkingCall, \* the arguments and the result of the last call into request.ts
  toast,        \* the toast the call is showing, and the toasts it has shown
  lastEvent     \* the branch the last step of the call took

vars ==
  << now, accounts, cursor, disk, hostAuth, hostWritable, payload, pc, acct, ep, lastFailure, lastError,
     result, aborted, abortedAt, sleepStart, sleepMs, tried, pending, exhausted, evicted, picked, pickLog,
     cooldownUntil, logins, store, diskWritable, diskFaults, signatureCache,
     lastSignedThinkingBySessionKey, thinkingCall, toast, lastEvent >>

thinkingVars == << signatureCache, lastSignedThinkingBySessionKey, thinkingCall >>
poolVars == << accounts, cursor, disk, diskWritable, diskFaults >>
passVars == << acct, ep, tried, pending >>
sleepVars == << sleepStart, sleepMs >>
ghostVars == << picked, pickLog, cooldownUntil, logins, store >>
callVars ==
  << pc, acct, ep, tried, pending, lastFailure, lastError, result, aborted, abortedAt, sleepStart, sleepMs,
     exhausted >>

\* isOAuthAuth(auth): the credential's type is oauth; the credential the
\* fetch call leaves behind after the last eviction still is
isOAuthAuth(auth) == auth \in { "oauth", "cleared" }

\* the errors whose message tells the user to run `opencode auth login`
RemediationErrors == { "NoAccountsConfigured", "NoAccountsAvailable", "AllAccountsInvalid" }

\* the pool a loader finds: k accounts, none rate-limited
TokenNames == << "r1", "r2", "r3", "r4", "r5" >>
EmailNames == << "e1", "e2", "e3", "e4", "e5" >>

InitialAccount(k) ==
  [ id |-> k, email |-> EmailNames[k], refreshToken |-> TokenNames[k],
    projectId |-> NoProject,
    addedAt |-> 0, lastUsed |-> 0, isRateLimited |-> FALSE, rateLimitResetTime |-> 0 ]

\* no storage function has been applied
NoStore ==
  [ op |-> "none", list |-> << >>, results |-> << >>, replaceAll |-> FALSE,
    before |-> NoFile, dedup |-> << >>, loaded |-> NullStorage, refresh |-> "" ]

\* the call has reached no toast
NoToast ==
  [ phase |-> "none", site |-> "none", message |-> << >>, variant |-> "info",
    shown |-> 0, failed |-> 0, reached |-> 0 ]

\* no payload is at hand
NoPayload == [ op |-> "none" ]

\* no request has been prepared
NoThinkingCall ==
  [ op |-> "none", model |-> << >>, key |-> << >>, dialect |-> "contents",
    contents |-> << >>, prepared |-> << >>, recovered |-> FALSE,
    response |-> << >>, streaming |-> FALSE, contentType |-> "",
    toolDebugMissing |-> 0, sessionIdArg |-> << >>, served |-> 0 ]

\* no fetch call has been made, the clock starts, the disk is writable
InitRest ==
  /\ now = 0
  /\ hostWritable = TRUE
  /\ pc = "idle"
  /\ acct = 0
  /\ ep = 0
  /\ lastFailure = NoFailure
  /\ lastError = ""
  /\ result = NoResult
  /\ aborted = FALSE
  /\ abortedAt = "none"
  /\ sleepStart = 0
  /\ sleepMs = 0
  /\ tried = {}
  /\ pending = {}
  /\ exhausted = {}
  /\ evicted = {}
  /\ picked = 0
  /\ pickLog = << >>
  /\ cooldownUntil = [ id \in 1..MaxAccounts |-> 0 ]
  /\ logins = 0
  /\ diskWritable = TRUE
  /\ diskFaults = 0
  /\ signatureCache = {}
  /\ lastSignedThinkingBySessionKey = << >>
  /\ thinkingCall = NoThinkingCall
  /\ toast = NoToast
  /\ payload = NoPayload
  /\ lastEvent = "init"

\* the loader has built the AccountManager from the accounts file
Init ==
  /\ \E n \in 0..MaxAccounts :
       /\ accounts = [ k \in 1..n |-> InitialAccount(k) ]
       /\ \E c \in 0..Max2(0, n - 1) :
            /\ cursor = c
            /\ disk = IF n = 0 THEN NoFile ELSE toStorage(accounts, c)
  /\ hostAuth \in { "oauth", "apikey" }
  /\ store = NoStore
  /\ InitRest

\* a saveToDisk() whose failure is not caught: a step with a failing write
\* does not complete
SaveToDiskUncaught(accs, cur) ==
  /\ diskWritable
  /\ disk' = toStorage(accs, cur)
  /\ UNCHANGED << diskWritable, diskFaults >>

\* a saveToDisk() that writes nothing
SaveToDiskSkipped(accs, cur) == UNCHANGED << disk, diskWritable, diskFaults >>

\* accountManager.saveToDisk() in a try/catch: the write succeeds or fails
\* (a failed write is caught and logged, and leaves the file as it was)
SaveToDisk(accs, cur) ==
  /\ disk' = IF diskWritable THEN toStorage(accs, cur) ELSE disk
  /\ diskWritable' = TRUE
  /\ UNCHANGED diskFaults

\* no write of the accounts file is made
NoSave == UNCHANGED << disk, diskWritable, diskFaults >>

\* the call ends with a returned response or a thrown error; its locals
\* (lastFailure, lastError, the pending sleep) end with it
Finish(res, event) ==
  /\ pc' = "done"
  /\ result' = res
  /\ lastEvent' = event
  /\ lastFailure' = NoFailure
  /\ lastError' = ""
  /\ exhausted' = {}
  /\ sleepStart' = 0
  /\ sleepMs' = 0

\* the call goes on at `next`
Goto(next, event) ==
  /\ pc' = next
  /\ lastEvent' = event
  /\ UNCHANGED result

NoSleep == sleepStart' = 0 /\ sleepMs' = 0

\* ------------------------------------------------------ the fetch call
\* fetch(input, init) is entered: a host without OAuth auth is passed
\* through, an empty pool is fatal, otherwise the retry loop starts
StartCall ==
  /\ pc \in { "idle", "done" }
  /\ aborted' = FALSE
  /\ abortedAt' = "none"
  /\ acct' = 0
  /\ ep' = 0
  /\ tried' = {}
  /\ UNCHANGED pending
  /\ IF ~isOAuthAuth(hostAuth) THEN Finish(PassedThrough, "passthrough")
     ELSE IF Len(accounts) = 0 THEN Finish(Thrown("NoAccountsConfigured"), "noAccounts")
     ELSE /\ pc' = "loop"
          /\ result' = NoResult
          /\ lastEvent' = "start"
          /\ lastFailure' = NoFailure
          /\ lastError' = ""
          /\ exhausted' = {}
          /\ NoSleep
  /\ UNCHANGED << now, poolVars, hostAuth, hostWritable, payload, thinkingVars, toast, evicted >>
  /\ UNCHANGED ghostVars

\* a loop head without the empty-pool check: an empty pool is taken for a
\* pool whose accounts are all rate-limited
LoopHeadUnchecked ==
  /\ pc = "loop"
  /\ IF aborted
       THEN /\ Finish(Thrown("Aborted"), "abortedAtLoopHead")
            /\ UNCHANGED << poolVars, passVars >>
     ELSE LET idx == pickNextIndex(accounts, cursor, now) IN
       IF idx = -1
         THEN /\ Goto("waitAll", "allRateLimited")
              /\ sleepStart' = now
              /\ sleepMs' = IF getMinWaitTimeMs(accounts, now) # 0
                              THEN getMinWaitTimeMs(accounts, now)
                              ELSE AllLimitedFallbackMs
              /\ UNCHANGED << poolVars, passVars, lastFailure, lastError, exhausted >>
         ELSE /\ cursor' = cursorAfterPick(accounts, idx)
              /\ acct' = accounts[idx + 1].id
              /\ ep' = 0
              /\ tried' = {}
              /\ UNCHANGED pending
              /\ SaveToDisk(accounts, cursor')
              /\ Goto("auth", "picked")
              /\ UNCHANGED << accounts, sleepVars, lastFailure, lastError, exhausted >>
  /\ UNCHANGED << now, hostAuth, hostWritable, payload, thinkingVars, toast, aborted, abortedAt, evicted, ghostVars >>

\* the head of the while (true) loop: checkAborted(), the empty-pool check,
\* pickNext(), and either the all-rate-limited sleep or the selected
\* account with the rotation state persisted
LoopHead ==
  /\ pc = "loop"
  /\ IF aborted
       THEN /\ Finish(Thrown("Aborted"), "abortedAtLoopHead")
            /\ UNCHANGED << poolVars, passVars >>
     ELSE IF Len(accounts) = 0
       THEN /\ Finish(Thrown("NoAccountsAvailable"), "noAccounts")
            /\ UNCHANGED << poolVars, passVars >>
     ELSE LET idx == pickNextIndex(accounts, cursor, now) IN
       IF idx = -1
         THEN /\ Goto("waitAll", "allRateLimited")
              /\ sleepStart' = now
              /\ sleepMs' = IF getMinWaitTimeMs(accounts, now) # 0
                              THEN getMinWaitTimeMs(accounts, now)
                              ELSE AllLimitedFallbackMs
              /\ UNCHANGED << poolVars, passVars, lastFailure, lastError, exhausted >>
         ELSE /\ cursor' = cursorAfterPick(accounts, idx)
              /\ acct' = accounts[idx + 1].id
              /\ ep' = 0
              /\ tried' = {}
              /\ UNCHANGED pending
              /\ SaveToDisk(accounts, cursor')
              /\ Goto("auth", "picked")
              /\ UNCHANGED << accounts, sleepVars, lastFailure, lastError, exhausted >>
  /\ UNCHANGED << now, hostAuth, hostWritable, payload, thinkingVars, toast, aborted, abortedAt, evicted, ghostVars >>

\* await sleep(waitMs, abortSignal) of the all-rate-limited branch settles:
\* a rejection leaves fetch, a resolution restarts the loop
WaitAllSettles ==
  /\ pc = "waitAll"
  /\ sleep(sleepMs, sleepStart, aborted, now) # "pending"
  /\ IF sleep(sleepMs, sleepStart, aborted, now) = "reject"
       THEN Finish(Thrown("Aborted"), "waitAllRejected")
       ELSE /\ Goto("loop", "waitAllResolved")
            /\ NoSleep
            /\ UNCHANGED << lastFailure, lastError, exhausted >>
  /\ UNCHANGED << now, poolVars, hostAuth, hostWritable, payload, thinkingVars, toast, passVars, aborted, abortedAt, evicted >>
  /\ UNCHANGED ghostVars

\* what the token step finds: the access token still valid, or the outcome
\* of refreshAccessToken
AuthOutcomes ==
  { "valid", "refreshed", "refreshedNoAccess", "refreshNull", "invalid_grant",
    "refreshError" }

\* the catch of the refresh: invalid_grant evicts the account, persists the
\* pool, and with the pool empty clears the host's credential and throws
RefreshFailed(err) ==
  IF isInvalidGrant(err)
    THEN /\ accounts' = removeAccount(accounts, acct)
         /\ cursor' = IF IndexOfId(accounts, acct) = -1 THEN cursor
                      ELSE cursorAfterRemove(cursor, Len(accounts'))
         /\ evicted' = IF IndexOfId(accounts, acct) = -1 THEN evicted
                       ELSE evicted \cup { acct }
         /\ IF IndexOfId(accounts, acct) = -1 THEN NoSave
            ELSE SaveToDisk(accounts', cursor')
         /\ IF poolEmpty(Len(accounts'))
              THEN /\ hostAuth' = IF hostWritable THEN "cleared" ELSE hostAuth
                   /\ UNCHANGED << hostWritable, payload, thinkingVars, toast >>
                   /\ Finish(Thrown("AllAccountsInvalid"), "evictedLast")
              ELSE /\ lastError' = err
                   /\ Goto("loop", "evicted")
                   /\ UNCHANGED << hostAuth, hostWritable, payload, thinkingVars, toast, lastFailure, exhausted, sleepVars >>
    ELSE /\ lastError' = err
         /\ Goto("loop", "refreshFailed")
         /\ UNCHANGED << poolVars, hostAuth, hostWritable, payload, thinkingVars, toast, evicted, lastFailure, exhausted, sleepVars >>

\* accessTokenExpired / refreshAccessToken / updateFromAuth / the
\* missing-access check
EnsureAuth ==
  /\ pc = "auth"
  /\ \E o \in AuthOutcomes :
       CASE o = "valid" ->
              /\ Goto("project", "authValid")
              /\ UNCHANGED << poolVars, hostAuth, hostWritable, payload, thinkingVars, toast, evicted, lastFailure, lastError,
                              exhausted, sleepVars >>
         [] o = "refreshed" ->
              /\ accounts' = updateFromAuth(accounts, IndexOfId(accounts, acct),
                               accounts[IndexOfId(accounts, acct) + 1].refreshToken,
                               accounts[IndexOfId(accounts, acct) + 1].projectId)
              /\ SaveToDisk(accounts', cursor)
              /\ Goto("project", "refreshed")
              /\ UNCHANGED << cursor, hostAuth, hostWritable, payload, thinkingVars, toast, evicted, lastFailure, lastError,
                              exhausted, sleepVars >>
         [] o = "refreshedNoAccess" ->
              /\ accounts' = updateFromAuth(accounts, IndexOfId(accounts, acct),
                               accounts[IndexOfId(accounts, acct) + 1].refreshToken,
                               accounts[IndexOfId(accounts, acct) + 1].projectId)
              /\ SaveToDisk(accounts', cursor)
              /\ lastError' = "MissingAccessToken"
              /\ Goto("loop", "missingAccess")
              /\ UNCHANGED << cursor, hostAuth, hostWritable, payload, thinkingVars, toast, evicted, lastFailure, exhausted,
                              sleepVars >>
         [] o = "refreshNull" ->
              /\ lastError' = "RefreshFailed"
              /\ Goto("loop", "refreshFailed")
              /\ UNCHANGED << poolVars, hostAuth, hostWritable, payload, thinkingVars, toast, evicted, lastFailure, exhausted,
                              sleepVars >>
         [] OTHER -> RefreshFailed(o)
  /\ UNCHANGED << now, passVars, aborted, abortedAt >>
  /\ UNCHANGED ghostVars

\* ensureProjectContext(authRecord): throws, returns the same auth record,
\* or returns an updated one that is merged and persisted (the updated
\* record differs in its access token and expiry, which the pool's
\* metadata does not hold)
EnsureProject ==
  /\ pc = "project"
  /\ \/ /\ lastError' = "ProjectContextError"
        /\ Goto("loop", "projectFailed")
        /\ UNCHANGED << poolVars, ep >>
     \/ /\ Goto("endpoint", "projectResolved")
        /\ ep' = 0
        /\ UNCHANGED << poolVars, lastError >>
     \/ /\ accounts' = updateFromAuth(accounts, IndexOfId(accounts, acct),
                         accounts[IndexOfId(accounts, acct) + 1].refreshToken,
                         accounts[IndexOfId(accounts, acct) + 1].projectId)
        /\ SaveToDisk(accounts', cursor)
        /\ Goto("endpoint", "projectUpdated")
        /\ ep' = 0
        /\ UNCHANGED << cursor, lastError >>
  /\ UNCHANGED << now, hostAuth, hostWritable, payload, thinkingVars, toast, acct, tried, pending, lastFailure, aborted, abortedAt, sleepVars,
                  exhausted, evicted >>
  /\ UNCHANGED ghostVars

\* a variant that does not await the fetch: the request for the next endpoint
\* is issued while the previous one is still unsettled
SendRequestUnawaited ==
  /\ pc = "endpoint"
  /\ tried' = tried \cup { ep }
  /\ pending' = pending \cup { ep }
  /\ IF ep < NumEndpoints - 1
       THEN /\ ep' = ep + 1
            /\ Goto("endpoint", "sent")
       ELSE /\ Goto("inflight", "sent")
            /\ UNCHANGED ep
  /\ UNCHANGED << now, poolVars, hostAuth, hostWritable, payload, thinkingVars, toast, acct, lastFailure, lastError,
                  aborted, abortedAt, sleepVars, exhausted, evicted >>
  /\ UNCHANGED ghostVars

\* prepareAntigravityRequest and fetch(prepared.request, prepared.init) for
\* endpoint ep: the request is in flight until the awaited fetch settles
SendRequest ==
  /\ pc = "endpoint"
  /\ tried' = tried \cup { ep }
  /\ pending' = pending \cup { ep }
  /\ Goto("inflight", "sent")
  /\ UNCHANGED << now, poolVars, hostAuth, hostWritable, payload, thinkingVars, toast, acct, ep, lastFailure, lastError,
                  aborted, abortedAt, sleepVars, exhausted, evicted >>
  /\ UNCHANGED ghostVars

\* the catch of the endpoint try block: the next endpoint if one is left,
\* otherwise the next account
EndpointCatch(err, event) ==
  /\ lastError' = err
  /\ NoSleep
  /\ IF ep < NumEndpoints - 1
       THEN /\ ep' = ep + 1
            /\ Goto("endpoint", event)
            /\ UNCHANGED exhausted
       ELSE /\ Goto("loop", event)
            /\ exhausted' = exhausted \cup { acct }
            /\ UNCHANGED ep

\* a 429: the account is marked rate-limited for the response's retry
\* duration and the pool persisted; several accounts switch, one sleeps
On429(resp) ==
  /\ accounts' = markRateLimited(accounts, IndexOfId(accounts, acct),
                                 retryAfterMsFromResponse(resp), now)
  /\ SaveToDisk(accounts', cursor)
  /\ lastFailure' = Failure(resp)
  /\ IF switchesOn429(Len(accounts'))
       THEN /\ Goto("loop", "rateLimitedSwitch")
            /\ UNCHANGED sleepVars
       ELSE /\ Goto("sleep429", "rateLimitedWait")
            /\ sleepStart' = now
            /\ sleepMs' = retryAfterMsFromResponse(resp)
  /\ UNCHANGED << cursor, ep, lastError, exhausted >>

\* a response that is not a 429: a retryable status before the last
\* endpoint falls back, anything else is returned
OnResponse(resp) ==
  IF shouldRetryEndpoint(resp.status) /\ ep < NumEndpoints - 1
    THEN /\ lastFailure' = Failure(resp)
         /\ ep' = ep + 1
         /\ Goto("endpoint", "endpointFallback")
         /\ UNCHANGED << poolVars, lastError, sleepVars, exhausted >>
    ELSE /\ Finish(Returned(resp), "returned")
         /\ UNCHANGED << poolVars, ep >>

\* the awaited fetch settles: it rejects (always, once the signal is
\* aborted) or answers with a response
RequestSettles ==
  /\ pc = "inflight"
  /\ \/ /\ EndpointCatch(IF aborted THEN "AbortError" ELSE "NetworkError", "fetchThrew")
        /\ UNCHANGED << poolVars, lastFailure >>
     \/ /\ ~aborted
        /\ \E resp \in Responses(ep, acct) :
             IF resp.status = 429 THEN On429(resp) ELSE OnResponse(resp)
  /\ pending' = pending \ { ep }
  /\ UNCHANGED << now, hostAuth, hostWritable, payload, thinkingVars, toast, acct, tried, aborted, abortedAt, evicted, ghostVars >>

\* await sleep(retryAfterMs, abortSignal) of the single-account branch
\* settles inside the endpoint try block: a rejection is caught by the
\* endpoint catch, a resolution breaks out to the outer loop
Sleep429Settles ==
  /\ pc = "sleep429"
  /\ sleep(sleepMs, sleepStart, aborted, now) # "pending"
  /\ IF sleep(sleepMs, sleepStart, aborted, now) = "reject"
       THEN EndpointCatch("Aborted", "sleep429Rejected")
       ELSE /\ Goto("loop", "sleep429Resolved")
            /\ NoSleep
            /\ UNCHANGED << ep, lastError, exhausted >>
  /\ UNCHANGED << now, poolVars, hostAuth, hostWritable, payload, thinkingVars, toast, acct, tried, pending, lastFailure, aborted, abortedAt, evicted >>
  /\ UNCHANGED ghostVars

\* the inbound call's AbortSignal fires
Abort ==
  /\ pc \notin { "idle", "done" }
  /\ ~aborted
  /\ aborted' = TRUE
  /\ abortedAt' = pc
  /\ UNCHANGED << now, poolVars, hostAuth, hostWritable, payload, thinkingVars, toast, pc, passVars, lastFailure, lastError, result,
                  sleepVars, exhausted, evicted, lastEvent >>
  /\ UNCHANGED ghostVars

\* time passes
Tick ==
  /\ now + TickMs <= MaxTime
  /\ now' = now + TickMs
  /\ UNCHANGED << poolVars, hostAuth, hostWritable, payload, thinkingVars, toast, pc, passVars, lastFailure, lastError, result,
                  aborted, abortedAt, sleepVars, exhausted, evicted, lastEvent >>
  /\ UNCHANGED ghostVars

Next ==
  \/ StartCall
  \/ LoopHead
  \/ WaitAllSettles
  \/ EnsureAuth
  \/ EnsureProject
  \/ SendRequest
  \/ RequestSettles
  \/ Sleep429Settles
  \/ Abort
  \/ Tick

Spec == Init /\ [][Next]_vars

\* --------------------------------------- the operations of the account pool
\* the cooldowns a 429 of the model can carry
RetryDurations == { TickMs, 2 * TickMs }

\* the successful OAuth results of the model
ResultEmails == { NoEmail, "e1", "e2" }
ResultTokens == { "", "r1", "r2" }
Results ==
  { OAuthResult(e, r, NoProject) : e \in ResultEmails, r \in ResultTokens }

\* the longest list of results persistAccountPool is called with
MaxResults == 1

\* the most logins of a run
MaxLogins == 2

ResultLists ==
  UNION { [ 1..n -> Results ] : n \in 0..MaxResults }

\* the last n elements of s
LastN(s, n) == IF Len(s) <= n THEN s ELSE SubSeq(s, Len(s) - n + 1, Len(s))

\* no account of the pool is under cooldown
NoCooldown(accs, t) == \A i \in 1..Len(accs) : Eligible(accs[i], t)

poolFrame == UNCHANGED << hostAuth, hostWritable, payload, thinkingVars, toast, callVars, store >>

\* accountManager.pickNext()
PoolPickNext ==
  /\ LET idx == pickNextIndex(accounts, cursor, now) IN
       /\ picked' = IF idx = -1 THEN 0 ELSE accounts[idx + 1].id
       /\ cursor' = IF idx = -1 THEN cursor ELSE cursorAfterPick(accounts, idx)
       /\ pickLog' = IF idx # -1 /\ NoCooldown(accounts, now)
                       THEN LastN(Append(pickLog, accounts[idx + 1].id), Len(accounts))
                       ELSE << >>
  /\ lastEvent' = "pickNext"
  /\ UNCHANGED << now, accounts, disk, diskWritable, diskFaults, evicted, cooldownUntil >>
  /\ UNCHANGED logins
  /\ poolFrame

\* accountManager.markRateLimited(account, retryAfterMs)
PoolMarkRateLimited ==
  /\ \E idx \in 0..(Len(accounts) - 1), ms \in RetryDurations :
       /\ accounts' = markRateLimited(accounts, idx, ms, now)
       /\ cooldownUntil' = [ cooldownUntil EXCEPT ![accounts[idx + 1].id] = now + ms ]
  /\ picked' = 0
  /\ pickLog' = << >>
  /\ lastEvent' = "markRateLimited"
  /\ UNCHANGED << now, cursor, disk, diskWritable, diskFaults, evicted >>
  /\ UNCHANGED logins
  /\ poolFrame

\* accountManager.removeAccount(account), of an account object that is in
\* the pool or no longer is
PoolRemoveAccount ==
  /\ \E id \in 1..MaxAccounts :
       /\ accounts' = removeAccount(accounts, id)
       /\ cursor' = IF IndexOfId(accounts, id) = -1 THEN cursor
                    ELSE cursorAfterRemove(cursor, Len(accounts'))
       /\ evicted' = IF IndexOfId(accounts, id) = -1 THEN evicted
                     ELSE evicted \cup { id }
  /\ picked' = 0
  /\ pickLog' = << >>
  /\ lastEvent' = "removeAccount"
  /\ UNCHANGED << now, disk, diskWritable, diskFaults, cooldownUntil >>
  /\ UNCHANGED logins
  /\ poolFrame

\* accountManager.saveToDisk()
PoolSaveToDisk ==
  /\ SaveToDisk(accounts, cursor)
  /\ lastEvent' = "saveToDisk"
  /\ UNCHANGED << now, accounts, cursor, evicted, ghostVars >>
  /\ poolFrame

\* AccountManager.loadFromDisk(): a new manager built from loadAccounts()
PoolLoadFromDisk ==
  /\ LET stored == loadAccounts(disk) IN
       /\ accounts' = [ i \in 1..Len(stored.accounts) |-> Managed(stored.accounts[i], i) ]
       /\ cursor' = stored.activeIndex
  /\ cooldownUntil' =
       [ id \in 1..MaxAccounts |->
           IF id <= Len(accounts') /\ accounts'[id].isRateLimited
             THEN accounts'[id].rateLimitResetTime ELSE 0 ]
  /\ evicted' = {}
  /\ picked' = 0
  /\ pickLog' = << >>
  /\ lastEvent' = "loadFromDisk"
  /\ UNCHANGED << now, disk, diskWritable, diskFaults >>
  /\ UNCHANGED logins
  /\ poolFrame

\* persistAccountPool(results, replaceAll) of a login, in merge or
\* fresh-start mode; a failing saveAccounts leaves the file as it was
PersistAccountPool ==
  /\ logins < MaxLogins
  /\ logins' = logins + 1
  /\ \E results \in ResultLists, replaceAll \in BOOLEAN :
       LET file == persistAccountPool(disk, results, replaceAll, now) IN
         /\ Len(file.accounts) <= MaxAccounts
         /\ disk' = IF diskWritable THEN file ELSE disk
         /\ lastEvent' = IF replaceAll THEN "persistFresh" ELSE "persistMerge"
  /\ UNCHANGED << now, accounts, cursor, diskWritable, diskFaults, evicted, picked, pickLog,
                  cooldownUntil >>
  /\ poolFrame

\* no account has been authenticated yet
InitPool ==
  /\ accounts = << >>
  /\ cursor = 0
  /\ disk = NoFile
  /\ hostAuth = "oauth"
  /\ store = NoStore
  /\ InitRest

NextPool ==
  \/ PoolPickNext
  \/ PoolMarkRateLimited
  \/ PoolRemoveAccount
  \/ PoolSaveToDisk
  \/ PoolLoadFromDisk
  \/ PersistAccountPool
  \/ Tick

SpecPool == InitPool /\ [][NextPool]_vars

\* ------------------------------------------- stores that refuse writes
\* the most writes of the accounts file that fail in a run
MaxDiskFaults == 1

\* the next write of the accounts file will fail (disk full, no permission)
DiskFault ==
  /\ diskWritable
  /\ diskFaults < MaxDiskFaults
  /\ diskWritable' = FALSE
  /\ diskFaults' = diskFaults + 1
  /\ UNCHANGED << now, accounts, cursor, disk, hostAuth, hostWritable, payload, thinkingVars, toast, callVars,
                  evicted, ghostVars, lastEvent >>

\* writes of the host's credential store start or stop failing
HostFault ==
  /\ hostWritable' = ~hostWritable
  /\ UNCHANGED << thinkingVars, toast, payload >>
  /\ UNCHANGED << now, poolVars, hostAuth, callVars, evicted, ghostVars, lastEvent >>

NextHostFault ==
  \/ StartCall
  \/ LoopHead
  \/ WaitAllSettles
  \/ EnsureAuth
  \/ EnsureProject
  \/ SendRequest
  \/ RequestSettles
  \/ Sleep429Settles
  \/ Abort
  \/ Tick
  \/ HostFault

\* the fetch call with a host whose credential store can refuse writes
SpecHostFault == Init /\ [][NextHostFault]_vars

NextDiskFault ==
  \/ StartCall
  \/ LoopHead
  \/ WaitAllSettles
  \/ EnsureAuth
  \/ EnsureProject
  \/ SendRequest
  \/ RequestSettles
  \/ Sleep429Settles
  \/ Abort
  \/ Tick
  \/ DiskFault

\* the fetch call with an accounts file whose writes can fail
SpecDiskFault == Init /\ [][NextDiskFault]_vars

\* fetch calls of the same loader share one AccountManager: while this call
\* sleeps because every account is rate-limited, another call's refresh is
\* answered invalid_grant and evicts its account
EvictedElsewhere ==
  /\ pc = "waitAll"
  /\ \E i \in 1..Len(accounts) :
       /\ accounts' = removeAccount(accounts, accounts[i].id)
       /\ cursor' = cursorAfterRemove(cursor, Len(accounts'))
       /\ evicted' = evicted \cup { accounts[i].id }
       /\ SaveToDisk(accounts', cursor')
       /\ hostAuth' = IF poolEmpty(Len(accounts')) /\ hostWritable THEN "cleared"
                      ELSE hostAuth
  /\ UNCHANGED << now, hostWritable, payload, thinkingVars, toast, callVars, ghostVars, lastEvent >>

NextShared ==
  \/ StartCall
  \/ LoopHead
  \/ WaitAllSettles
  \/ EnsureAuth
  \/ EnsureProject
  \/ SendRequest
  \/ RequestSettles
  \/ Sleep429Settles
  \/ Abort
  \/ Tick
  \/ EvictedElsewhere

SpecShared == Init /\ [][NextShared]_vars

\* ------------------------------------------ the storage functions on their own
\* the longest stored pool, list of results and list to deduplicate
MaxStored == 2
MaxStoreResults == 2
MaxDedup == 3

\* the pool invariant: every account has a refresh token, and no two
\* accounts have the same known email
PoolInvariant(accs) ==
  /\ \A i \in 1..Len(accs) : accs[i].refreshToken \notin { "", NoToken }
  /\ \A i, j \in 1..Len(accs) :
       i # j /\ accs[i].email # NoEmail => accs[i].email # accs[j].email

\* the records of an accounts file the plugin has written
StoredAccounts ==
  { [ email |-> e, refreshToken |-> r, projectId |-> "p0", addedAt |-> 0, lastUsed |-> 0,
      isRateLimited |-> l, rateLimitResetTime |-> IF l THEN MaxTime ELSE 0 ] :
      e \in { NoEmail, "e1", "e2" }, r \in { "r1", "r2" }, l \in BOOLEAN }

StoredPools ==
  { a \in UNION { [ 1..n -> StoredAccounts ] : n \in 0..MaxStored } : PoolInvariant(a) }

\* the accounts files the plugin has written: none, or a pool that satisfies
\* the invariant with the cursor inside it
StoredFiles ==
  { NoFile } \cup
  UNION { { File(a, c) : c \in 0..Max2(0, Len(a) - 1) } : a \in StoredPools }

\* the records of an accounts file of any origin: the refreshToken may be
\* missing or empty, emails may repeat
RawAccounts ==
  { [ email |-> e, refreshToken |-> r, projectId |-> NoProject, addedAt |-> 0,
      lastUsed |-> u, isRateLimited |-> FALSE, rateLimitResetTime |-> 0 ] :
      e \in { NoEmail, "e1" }, r \in { NoToken, "", "r1", "r2" }, u \in { 0, 1 } }

\* the activeIndex of such a file: below, inside or beyond the pool
RawIndices == { -1, 0, 1, MaxStored + 1 }

RawFiles ==
  { NoFile } \cup
  { File(a, c) : a \in UNION { [ 1..n -> RawAccounts ] : n \in 0..MaxStored },
                 c \in RawIndices }

\* the successful OAuth results of a login
StoreResults ==
  { OAuthResult(e, r, p) :
      e \in ResultEmails, r \in ResultTokens, p \in { NoProject, "p1" } }

StoreResultLists ==
  UNION { [ 1..n -> StoreResults ] : n \in 0..MaxStoreResults }

\* the lists deduplicateAccountsByEmail is applied to: the record at
\* position i carries the i-th refresh token, so that records are told apart
DedupShapes ==
  { << e, u, a >> : e \in { NoEmail, "e1", "e2" }, u \in { 0, 1 }, a \in { 0, 1 } }

DedupInputs ==
  UNION { { [ i \in 1..n |->
              [ email |-> sh[i][1], refreshToken |-> TokenNames[i], projectId |-> NoProject,
                addedAt |-> sh[i][3], lastUsed |-> sh[i][2],
                isRateLimited |-> FALSE, rateLimitResetTime |-> 0 ] ] :
            sh \in [ 1..n -> DedupShapes ] } : n \in 0..MaxDedup }

\* the function drawn and its arguments: a list to deduplicate, a file to
\* load, or a stored file and the results of a login to persist
InitStore ==
  /\ accounts = << >>
  /\ cursor = 0
  /\ hostAuth = "oauth"
  /\ InitRest
  /\ \/ /\ disk = NoFile
        /\ \E l \in DedupInputs :
             store = [ NoStore EXCEPT !.op = "dedupInput", !.list = l ]
     \/ /\ disk \in RawFiles
        /\ store = [ NoStore EXCEPT !.op = "loadInput" ]
     \/ /\ disk \in StoredFiles
        /\ \E rs \in StoreResultLists, ra \in BOOLEAN :
             store = [ NoStore EXCEPT !.op = "persistInput", !.results = rs,
                                      !.replaceAll = ra ]

storeFrame ==
  UNCHANGED << accounts, cursor, hostAuth, hostWritable, payload, thinkingVars, toast, callVars, evicted, picked,
               pickLog, cooldownUntil, diskWritable, diskFaults, lastEvent >>

\* deduplicateAccountsByEmail(accounts)
StoreDedup ==
  /\ store.op = "dedupInput"
  /\ store' = [ store EXCEPT !.op = "dedup",
                             !.dedup = deduplicateAccountsByEmail(store.list) ]
  /\ UNCHANGED << now, disk, logins >>
  /\ storeFrame

\* loadAccounts(), of a file of any origin or of the file a login left
StoreLoad ==
  /\ store.op \in { "loadInput", "persist" }
  /\ store' = [ store EXCEPT !.op = "load", !.loaded = loadAccounts(disk) ]
  /\ UNCHANGED << now, disk, logins >>
  /\ storeFrame

\* persistAccountPool(results, replaceAll), once and once again, each some
\* time after the stored records were written: now = Date.now()
StorePersist ==
  /\ store.op \in { "persistInput", "persist" }
  /\ logins < MaxLogins
  /\ logins' = logins + 1
  /\ now + TickMs <= MaxTime
  /\ now' = now + TickMs
  /\ disk' = persistAccountPool(disk, store.results, store.replaceAll, now')
  /\ store' = [ store EXCEPT !.op = "persist", !.before = disk ]
  /\ storeFrame

NextStore ==
  \/ StoreDedup
  \/ StoreLoad
  \/ StorePersist

SpecStore == InitStore /\ [][NextStore]_vars

\* --------------------------------------------------------------- the loader
\* parseRefreshParts(auth.refresh).refreshToken of the host's credential: the
\* cleared credential and a credential that is not OAuth carry none
hostRefreshToken(auth, tok) == IF auth = "oauth" THEN tok ELSE ""

\* the refresh tokens the host's credential is drawn from
HostTokens == { "r1", "r2", "r3" }

\* hasMatchingAccount: some stored account has the host's refresh token
hasMatchingAccount(stored, tok) ==
  \E i \in 1..Len(stored.accounts) : stored.accounts[i].refreshToken = tok

\* a drift test that never finds the storage stale
isStaleNever(file, tok) == FALSE

\* the loader's drift test: accounts are stored, the host's credential has a
\* refresh token, and no stored account has it
isStale(file, tok) ==
  LET stored == loadAccounts(file) IN
    /\ ~stored.isNull
    /\ Len(stored.accounts) > 0
    /\ tok # ""
    /\ ~hasMatchingAccount(stored, tok)

\* clearAccounts(): unlinks the accounts file; a failing unlink is logged and
\* leaves the file
clearAccounts(file, writable) == IF writable THEN NoFile ELSE file

\* AccountManager.loadFromDisk(auth): the stored accounts if a file is
\* stored, else the one account of the host's credential if it has a
\* refresh token
loadFromDisk(file, tok, t) ==
  LET stored == loadAccounts(file) IN
    IF ~stored.isNull
      THEN [ i \in 1..Len(stored.accounts) |-> Managed(stored.accounts[i], i) ]
    ELSE IF tok # ""
      THEN << [ id |-> 1, email |-> NoEmail, refreshToken |-> tok, projectId |-> NoProject,
                addedAt |-> t, lastUsed |-> 0, isRateLimited |-> FALSE,
                rateLimitResetTime |-> 0 ] >>
    ELSE << >>

\* loader(getAuth, provider): without OAuth credential the storage is cleared
\* and no fetch is installed; otherwise stale storage is cleared, the
\* AccountManager is built and a non-empty pool is persisted
Loader ==
  /\ store.op = "loaderInput"
  /\ LET tok == hostRefreshToken(hostAuth, store.refresh)
         kept == IF ~isOAuthAuth(hostAuth) \/ isStale(disk, tok)
                   THEN clearAccounts(disk, diskWritable) ELSE disk
     IN  /\ accounts' = IF ~isOAuthAuth(hostAuth) THEN << >>
                        ELSE loadFromDisk(kept, tok, now)
         /\ cursor' = IF ~isOAuthAuth(hostAuth) THEN 0 ELSE loadAccounts(kept).activeIndex
         /\ disk' = IF Len(accounts') > 0 /\ diskWritable
                      THEN toStorage(accounts', cursor') ELSE kept
  /\ diskWritable' = TRUE
  /\ store' = [ store EXCEPT !.op = "loaded", !.before = disk ]
  /\ lastEvent' = "loaded"
  /\ UNCHANGED << now, hostAuth, hostWritable, payload, thinkingVars, toast, callVars, evicted, picked, pickLog,
                  cooldownUntil, logins, diskFaults >>

\* the loader finds a host credential and an accounts file
InitLoader ==
  /\ accounts = << >>
  /\ cursor = 0
  /\ hostAuth \in { "oauth", "cleared", "apikey" }
  /\ disk \in StoredFiles
  /\ \E tok \in HostTokens :
       store = [ NoStore EXCEPT !.op = "loaderInput", !.refresh = tok ]
  /\ InitRest

NextLoader ==
  \/ Loader
  \/ DiskFault

SpecLoader == InitLoader /\ [][NextLoader]_vars

\* ----------------------------------------------------- the TUI /connect flow
\* the accounts files a login can find: those the plugin wrote, and files
\* that exist but cannot be loaded
ConnectFiles ==
  StoredFiles \cup { Unreadable(f) : f \in StoredFiles \ { NoFile } }

\* a callback that persists its account as a fresh start
ConnectFresh ==
  /\ store.op = "connectInput"
  /\ now + TickMs <= MaxTime
  /\ now' = now + TickMs
  /\ \/ /\ lastEvent' = "exchangeFailed"
        /\ UNCHANGED disk
     \/ /\ lastEvent' = "exchanged"
        /\ disk' = IF diskWritable
                     THEN persistAccountPool(disk, store.results, TRUE, now')
                     ELSE disk
  /\ diskWritable' = TRUE
  /\ store' = [ store EXCEPT !.op = "connected", !.before = disk ]
  /\ UNCHANGED << accounts, cursor, hostAuth, hostWritable, payload, thinkingVars, toast, callVars, evicted, picked,
                  pickLog, cooldownUntil, logins, diskFaults >>

\* the callback of the TUI authorize methods: a failed exchange persists
\* nothing; a successful one is merged into the stored accounts, and a
\* failure of that is ignored
Connect ==
  /\ store.op = "connectInput"
  /\ now + TickMs <= MaxTime
  /\ now' = now + TickMs
  /\ \/ /\ lastEvent' = "exchangeFailed"
        /\ UNCHANGED disk
     \/ /\ lastEvent' = "exchanged"
        /\ disk' = IF diskWritable
                     THEN persistAccountPool(disk, store.results, FALSE, now')
                     ELSE disk
  /\ diskWritable' = TRUE
  /\ store' = [ store EXCEPT !.op = "connected", !.before = disk ]
  /\ UNCHANGED << accounts, cursor, hostAuth, hostWritable, payload, thinkingVars, toast, callVars, evicted, picked,
                  pickLog, cooldownUntil, logins, diskFaults >>

\* a login through the TUI finds an accounts file and authenticates an account
InitConnect ==
  /\ accounts = << >>
  /\ cursor = 0
  /\ hostAuth = "oauth"
  /\ disk \in ConnectFiles
  /\ \E r \in StoreResults :
       store = [ NoStore EXCEPT !.op = "connectInput", !.results = << r >> ]
  /\ InitRest

NextConnect ==
  \/ Connect
  \/ DiskFault

SpecConnect == InitConnect /\ [][NextConnect]_vars

\* ------------------------------------------ thinking signatures: the calls
\* the most responses a process transforms
MaxResponses == 2

\* the models, conversation keys and project keys of the requests
ClaudeThinking == << "claude", "thinking" >>
Models == { ClaudeThinking, << "CLAUDE", "thinking" >>, << "gemini" >> }
ConversationKeys == { << >>, << "c1" >> }
ProjectKeys == { << "p1", " " >> }
ToolDebugCounts == { 0, 1 }

\* the conversations of the requests, unsigned thinking filtered or not
UserTurn == Message("user", << TextPart(<< "q" >>) >>)
ToolResults == { Message("user", << ToolResultPart >>),
                 Message("user", << ToolResultPart, ToolResultPart >>) }
OneToolResult == Message("user", << ToolResultPart >>)
ThinkingOptions ==
  { << >>, << ThinkingPart(<< "a", "b" >>, NoSignature) >> }
    \cup { << ThinkingPart(<< "a" >>, sig) >> : sig \in { NoSignature, "s0", "s1" } }
ToolTurns ==
  { Message("model", th \o << ToolUsePart >>) : th \in ThinkingOptions }
    \cup { Message("model", << ToolUsePart, ThinkingPart(<< "a" >>, "s1") >>) }
PlainTurns ==
  { Message("model", << TextPart(<< "r" >>) >>),
    Message("model", << ThinkingPart(<< "a" >>, "s1") >>) }
ToolLoops == { << UserTurn, m, r >> : m \in ToolTurns, r \in ToolResults }
Conversations ==
  ToolLoops
    \cup { << UserTurn, p, UserTurn, m, OneToolResult >> : p \in PlainTurns, m \in ToolTurns }
    \cup { << UserTurn, p, m, OneToolResult >> : p \in PlainTurns, m \in ToolTurns }
    \cup { << UserTurn, m, OneToolResult, p >> : p \in PlainTurns, m \in ToolTurns }

\* the requests: a thinking Claude model in the Gemini dialect, and tool
\* loops under another spelling, in the Anthropic dialect or for another model
Request(model, conversationKey, dialect, contents) ==
  [ model |-> model, conversationKey |-> conversationKey, dialect |-> dialect,
    contents |-> contents ]
Requests ==
  { Request(ClaudeThinking, c, "contents", cs) : c \in ConversationKeys, cs \in Conversations }
    \cup { Request(m, << >>, "contents", cs) : m \in Models \ { ClaudeThinking }, cs \in ToolLoops }
    \cup { Request(ClaudeThinking, << >>, "messages", cs) : cs \in ToolLoops }

\* the parts of candidate 0 of the responses, over all chunks of the stream
ResponseParts ==
  { << ThinkingPart(<< "a" >>, "s1") >>,
    << ThinkingPart(<< "a" >>, "s2") >>,
    << ThinkingPart(<< "a" >>, NoSignature), Part("toolUse", << >>, "s1") >>,
    << ThinkingPart(<< "a" >>, NoSignature), ThinkingPart(<< "b" >>, "s1") >>,
    << ThinkingPart(<< "a" >>, "s1"), ToolUsePart, ThinkingPart(<< "b" >>, "s2") >>,
    << TextPart(<< "r" >>) >> }

thinkingFrame ==
  UNCHANGED << now, poolVars, hostAuth, hostWritable, payload, toast, callVars, evicted, ghostVars,
               lastEvent >>

\* prepareAntigravityRequest: the session key is built, the thinking of the
\* payload is repaired or the tool loop closed
PrepareRequest ==
  /\ thinkingCall.op \in { "none", "responded" }
  /\ \E req \in Requests, projectKey \in ProjectKeys :
       LET key == buildSignatureSessionKey(PLUGIN_SESSION_ID, req.model,
                                           req.conversationKey, projectKey)
           out == prepareThinking(signatureCache, lastSignedThinkingBySessionKey,
                                  req.model, key, req.contents, req.dialect)
       IN  /\ lastSignedThinkingBySessionKey' = out.last
           /\ thinkingCall' =
                [ NoThinkingCall EXCEPT !.op = "prepared", !.model = req.model,
                                        !.key = key, !.dialect = req.dialect,
                                        !.contents = req.contents,
                                        !.prepared = out.contents,
                                        !.recovered = out.recovered,
                                        !.served = thinkingCall.served ]
  /\ UNCHANGED signatureCache
  /\ thinkingFrame

\* the response of a prepared request is transformed under sessionId: an
\* event stream for a streaming request, a JSON body otherwise
Responds(sessionId, streaming, toolDebugMissing) ==
  /\ thinkingCall.op = "prepared"
  /\ thinkingCall.served < MaxResponses
  /\ \E parts \in ResponseParts :
       LET contentType == IF streaming THEN "text/event-stream" ELSE "application/json"
           out == transformAntigravityResponse(signatureCache,
                    lastSignedThinkingBySessionKey, parts, streaming, contentType,
                    thinkingCall.model, sessionId)
       IN  /\ signatureCache' = out.cache
           /\ lastSignedThinkingBySessionKey' = out.last
           /\ thinkingCall' =
                [ NoThinkingCall EXCEPT !.op = "responded", !.model = thinkingCall.model,
                                        !.key = thinkingCall.key, !.response = parts,
                                        !.streaming = streaming,
                                        !.contentType = contentType,
                                        !.toolDebugMissing = toolDebugMissing,
                                        !.sessionIdArg = sessionId,
                                        !.served = thinkingCall.served + 1 ]
  /\ thinkingFrame

\* fetch() returns transformAntigravityResponse(response, prepared.streaming,
\* debugContext, requestedModel, projectId, endpoint, effectiveModel,
\* prepared.toolDebugMissing, ...): the eighth argument, sessionId, receives
\* the count of tools without a schema
FetchReturns ==
  \E streaming \in BOOLEAN, toolDebugMissing \in ToolDebugCounts :
    Responds(NumberAsKey(toolDebugMissing), streaming, toolDebugMissing)

\* transformAntigravityResponse called with the sessionId of the prepared
\* request, as its signature asks
TransformResponse ==
  \E streaming \in BOOLEAN : Responds(thinkingCall.key, streaming, 0)

NextThinking ==
  \/ PrepareRequest
  \/ FetchReturns
  \/ TransformResponse

SpecThinking == InitPool /\ [][NextThinking]_vars

\* ------------------------------------------ the retry headers as they are sent
\* the longest header value of the model
MaxHeaderLen == 2

\* a header value is a sequence of these characters; << >> is the header
\* that is absent or empty, which `if (header)` treats alike
HeaderSymbols == { "-", "0", "7", "x" }
HeaderStrings == UNION { [ 1..n -> HeaderSymbols ] : n \in 0..MaxHeaderLen }

isDigit(c) == c \in { "0", "7" }
digitValue(c) == IF c = "7" THEN 7 ELSE 0

\* the value of the leading digits of s after the value v read so far
RECURSIVE leadingValue(_, _)
leadingValue(s, v) ==
  IF s = << >> \/ ~isDigit(Head(s)) THEN v
  ELSE leadingValue(Tail(s), 10 * v + digitValue(Head(s)))

\* Number.parseInt(s, 10): an optional sign and the digits that follow it,
\* whatever comes after them; NaN when no digit follows
parseInt(s) ==
  LET negative == s # << >> /\ Head(s) = "-"
      digits == IF negative THEN Tail(s) ELSE s
  IN  IF digits = << >> \/ ~isDigit(Head(digits)) THEN NaNHeader
      ELSE IntHeader(IF negative THEN 0 - leadingValue(digits, 0)
                     ELSE leadingValue(digits, 0))

\* response.headers.get(name), parsed when it is truthy
headerOf(s) == IF s = << >> THEN NoHeader ELSE parseInt(s)

\* a 429 with its retry-after-ms and retry-after headers as sent
RawResponse(rawMs, rawSec) ==
  [ status |-> 429, endpoint |-> 0, account |-> 0,
    retryAfterMs |-> headerOf(rawMs), retryAfter |-> headerOf(rawSec),
    rawMs |-> rawMs, rawSec |-> rawSec ]

\* a 429 has been received
InitRetry ==
  /\ accounts = << >>
  /\ cursor = 0
  /\ disk = NoFile
  /\ hostAuth = "oauth"
  /\ store = NoStore
  /\ now = 0
  /\ hostWritable = TRUE
  /\ pc = "idle"
  /\ acct = 0
  /\ ep = 0
  /\ \E rawMs \in HeaderStrings, rawSec \in HeaderStrings :
       lastFailure = RawResponse(rawMs, rawSec)
  /\ lastError = ""
  /\ result = NoResult
  /\ aborted = FALSE
  /\ abortedAt = "none"
  /\ sleepStart = 0
  /\ sleepMs = 0
  /\ tried = {}
  /\ pending = {}
  /\ exhausted = {}
  /\ evicted = {}
  /\ picked = 0
  /\ pickLog = << >>
  /\ cooldownUntil = [ id \in 1..MaxAccounts |-> 0 ]
  /\ logins = 0
  /\ diskWritable = TRUE
  /\ diskFaults = 0
  /\ signatureCache = {}
  /\ lastSignedThinkingBySessionKey = << >>
  /\ thinkingCall = NoThinkingCall
  /\ toast = NoToast
  /\ payload = NoPayload
  /\ lastEvent = "init"

\* const retryAfterMs = retryAfterMsFromResponse(response)
RetryAfter ==
  /\ lastEvent = "init"
  /\ sleepMs' = retryAfterMsFromResponse(lastFailure)
  /\ lastEvent' = "retryAfter"
  /\ UNCHANGED << now, poolVars, hostAuth, hostWritable, payload, thinkingVars, toast, pc, passVars,
                  lastFailure, lastError, result, aborted, abortedAt, sleepStart,
                  exhausted, evicted, ghostVars >>

NextRetry == RetryAfter

SpecRetry == InitRetry /\ [][NextRetry]_vars

\* ------------------------------------- concurrent calls and a concurrent login
\* the account a login authenticates while fetch calls run: one the pool
\* never held
NewLogin == OAuthResult("e3", "r3", NoProject)

\* persistAccountPool up to its `await loadAccounts()`: the login has read
\* the accounts file
PersistLoads ==
  /\ store.op = "none"
  /\ store' = [ store EXCEPT !.op = "persistLoaded", !.before = disk,
                             !.results = << NewLogin >> ]
  /\ lastEvent' = "persistLoaded"
  /\ UNCHANGED << now, accounts, cursor, disk, diskWritable, diskFaults, evicted, picked,
                  pickLog, cooldownUntil, logins >>
  /\ UNCHANGED << hostAuth, hostWritable, payload, thinkingVars, toast, callVars >>

\* persistAccountPool from there: the account is merged into what was read,
\* and the result written over the accounts file
PersistSaves ==
  /\ store.op = "persistLoaded"
  /\ disk' = persistAccountPool(store.before, store.results, FALSE, now)
  /\ store' = [ store EXCEPT !.op = "persisted" ]
  /\ lastEvent' = "persistSaved"
  /\ UNCHANGED << now, accounts, cursor, diskWritable, diskFaults, evicted, picked,
                  pickLog, cooldownUntil, logins >>
  /\ UNCHANGED << hostAuth, hostWritable, payload, thinkingVars, toast, callVars >>

\* fetch calls of one loader pick, rate-limit and evict on the shared
\* AccountManager and save it, in any interleaving, while a login persists
NextConcurrent ==
  \/ PoolPickNext
  \/ PoolMarkRateLimited
  \/ PoolRemoveAccount
  \/ PoolSaveToDisk
  \/ PersistLoads
  \/ PersistSaves

SpecConcurrent == Init /\ [][NextConcurrent]_vars

\* -------------------------------------------------- the toasts of fetch
\* the most toasts a call reaches
MaxToasts == 2

\* Math.max(1, Math.ceil(waitMs / 1000))
waitSecOf(waitMs) == Max2(1, (waitMs + 999) \div 1000)

\* the message of a toast: its template, and what is filled in
ToastMessage(template, label, count, waitSec) ==
  [ template |-> template, label |-> label, count |-> count, waitSec |-> waitSec ]

\* account.email || `Account ${account.index + 1}`: the email, or the position
accountLabel(accs, i) == IF accs[i].email # NoEmail THEN accs[i].email ELSE DigitNames[i]

\* the toasts a call over the pool can reach: every account is rate-limited
\* and the call waits; it uses an account of a pool of several; the account
\* was rate-limited and the call switches, or waits for the only account
ToastsOf(accs, t) ==
  LET count == Len(accs)
      waitMs == IF getMinWaitTimeMs(accs, t) = 0 THEN AllLimitedFallbackMs
                ELSE getMinWaitTimeMs(accs, t)
  IN  { [ site |-> "allLimited", variant |-> "warning",
          message |-> ToastMessage("All account(s) rate-limited. Waiting", "", count,
                                   waitSecOf(waitMs)) ] : k \in { c \in { count } : c > 0 } }
      \cup { [ site |-> "using", variant |-> "info",
               message |-> ToastMessage("Using", accountLabel(accs, i), count, 0) ] :
               i \in { j \in 1..count : count > 1 } }
      \cup { [ site |-> "switching", variant |-> "warning",
               message |-> ToastMessage("Rate limited. Switching", accountLabel(accs, i),
                                        count, 0) ] :
               i \in { j \in 1..count : switchesOn429(count) } }
      \cup { [ site |-> "waiting", variant |-> "warning",
               message |-> ToastMessage("Rate limited. Waiting", "", count,
                                        waitSecOf(retryAfterMsFromResponse(resp))) ] :
               resp \in { r \in Responses(0, 1) : r.status = 429 /\ count > 0
                                                   /\ ~switchesOn429(count) } }

toastFrame ==
  UNCHANGED << now, poolVars, hostAuth, hostWritable, payload, thinkingVars, pc, passVars,
               lastFailure, lastError, result, abortedAt, sleepVars, exhausted, evicted,
               ghostVars, lastEvent >>

\* await showToast(message, variant): nothing is sent once the call is
\* aborted; otherwise client.tui.showToast is called and awaited
ShowToast ==
  /\ toast.phase = "none"
  /\ toast.reached < MaxToasts
  /\ \E t \in ToastsOf(accounts, now) :
       toast' = [ toast EXCEPT !.phase = IF aborted THEN "returned" ELSE "pending",
                               !.site = t.site, !.message = t.message,
                               !.variant = t.variant, !.reached = toast.reached + 1 ]
  /\ UNCHANGED aborted
  /\ toastFrame

\* the TUI answers: the awaited promise resolves
SinkAnswers ==
  /\ toast.phase = "pending"
  /\ toast' = [ toast EXCEPT !.phase = "returned", !.shown = toast.shown + 1 ]
  /\ UNCHANGED aborted
  /\ toastFrame

\* the TUI is not available: the awaited promise rejects, which is caught
SinkFails ==
  /\ toast.phase = "pending"
  /\ toast' = [ toast EXCEPT !.phase = "returned", !.failed = toast.failed + 1 ]
  /\ UNCHANGED aborted
  /\ toastFrame

\* showToast has returned: the call goes on, to its sleep or its next pass
ToastReturns ==
  /\ toast.phase = "returned"
  /\ toast' = [ toast EXCEPT !.phase = "none" ]
  /\ UNCHANGED aborted
  /\ toastFrame

\* the caller aborts the call
ToastAbort ==
  /\ ~aborted
  /\ aborted' = TRUE
  /\ UNCHANGED toast
  /\ toastFrame

NextToast ==
  \/ ShowToast
  \/ SinkAnswers
  \/ SinkFails
  \/ ToastReturns
  \/ ToastAbort

SpecToast == Init /\ [][NextToast]_vars

\* the steps of the call are taken when they can be; nothing makes the TUI answer
SpecToastLive == SpecToast /\ WF_vars(ShowToast) /\ WF_vars(ToastReturns)

\* =================================================== properties of fetch
\* the awaited fetch of endpoint ep has just been answered with a response
Answered == pc = "inflight" /\ pc' # "inflight" /\ lastEvent' # "fetchThrew"

\* a status the fallback list is walked on
RetryableStatus(status) == status \in { 403, 404 } \/ status >= 500

\* the ids of the accounts in the pool
PoolIds == { accounts[i].id : i \in 1..Len(accounts) }

\* C1: a 403, 404 or >= 500 from an endpoint that is not the last records the
\* failure and moves to the next endpoint with the same account; any other
\* answer that is not a 429 (and any answer of the last endpoint) ends the
\* call with that response, and the endpoints contacted in the pass are
\* exactly those up to the one whose response is returned.
C1_EndpointFallback ==
  [][ Answered /\ lastEvent' \in { "endpointFallback", "returned" } =>
        /\ lastEvent' = "endpointFallback" =>
             /\ RetryableStatus(lastFailure'.status)
             /\ lastFailure'.endpoint = ep
             /\ ep < NumEndpoints - 1
             /\ ep' = ep + 1
             /\ acct' = acct
             /\ pc' = "endpoint"
             /\ result' = NoResult
        /\ lastEvent' = "returned" =>
             /\ ~RetryableStatus(result'.status) \/ ep = NumEndpoints - 1
             /\ pc' = "done"
             /\ result'.kind = "response"
             /\ result'.endpoint = ep
             /\ result'.account = acct
             /\ tried' = 0..ep
    ]_vars

\* endpoint 1 of 3 did not answer the call, endpoint 2 answered 200, which
\* is returned, and endpoint 3 was not contacted
C1_Witness ==
  /\ pc = "done"
  /\ lastEvent = "returned"
  /\ result.status = 200
  /\ result.endpoint = 1
  /\ tried = { 0, 1 }

\* the account the pass runs with carries the cooldown of a 429 received now
MarkedNow(accs, id, ms) ==
  /\ IndexOfId(accs, id) # -1
  /\ accs[IndexOfId(accs, id) + 1].isRateLimited
  /\ accs[IndexOfId(accs, id) + 1].rateLimitResetTime = now + ms

\* the retry duration the 429 kept in a failure context asks for
RetryDurationOf(failure) ==
  IF failure.retryAfterMs.kind = "int" /\ failure.retryAfterMs.value > 0
    THEN failure.retryAfterMs.value
  ELSE IF failure.retryAfter.kind = "int" /\ failure.retryAfter.value > 0
    THEN 1000 * failure.retryAfter.value
  ELSE 60000

\* the step is the handling of a 429
Answered429 ==
  Answered /\ lastEvent' \in { "rateLimitedSwitch", "rateLimitedWait" }

\* C2: a 429 with more than one account in the pool marks the selected
\* account rate-limited for the response's retry duration, records the
\* failure, ends the pass (no endpoint is left to it) and restarts account
\* selection with no sleep started.
C2_SwitchOn429 ==
  [][ Answered429 /\ Len(accounts) > 1 =>
        /\ lastFailure'.status = 429
        /\ lastFailure'.endpoint = ep
        /\ MarkedNow(accounts', acct, RetryDurationOf(lastFailure'))
        /\ pc' = "loop"
        /\ tried' = tried
        /\ sleepMs' = 0
        /\ sleepStart' = 0
        /\ result' = NoResult
    ]_vars

\* a 429 has just made a pool of several accounts switch accounts
C2_Witness ==
  /\ lastEvent = "rateLimitedSwitch"
  /\ pc = "loop"
  /\ Len(accounts) > 1
  /\ lastFailure.status = 429
  /\ MarkedNow(accounts, acct, RetryDurationOf(lastFailure))

\* C3: with one account in the pool a 429 starts one sleep of the retry
\* duration (5000 ms for Retry-After: 5 with no retry-after-ms) and returns
\* nothing; when that sleep resolves the retry duration has passed, the
\* loop restarts, and its next selection is the same account with no
\* second sleep.
C3_SingleAccountWaits ==
  [][ /\ Answered429 /\ Len(accounts) = 1 =>
           /\ pc' = "sleep429"
           /\ result' = NoResult
           /\ sleepStart' = now
           /\ sleepMs' = RetryDurationOf(lastFailure')
           /\ ( /\ lastFailure'.retryAfter = IntHeader(5)
                /\ lastFailure'.retryAfterMs = NoHeader ) => sleepMs' = 5000
           /\ acct' = acct
      /\ pc = "sleep429" /\ lastEvent' = "sleep429Resolved" /\ pc' # "sleep429" =>
           /\ now >= sleepStart + sleepMs
           /\ pc' = "loop"
           /\ result' = NoResult
           /\ Len(accounts') = 1
           /\ pickNextIndex(accounts', cursor', now) = IndexOfId(accounts', acct)
      /\ pc = "loop" /\ lastEvent = "sleep429Resolved" /\ pc' # "loop" /\ ~aborted =>
           /\ pc' = "auth"
           /\ acct' = acct
    ]_vars

\* the only account received a 429 with Retry-After: 5, 5000 ms have passed,
\* and a request of the same call is in flight with it again
C3_Witness ==
  /\ pc = "inflight"
  /\ ~aborted
  /\ Len(accounts) = 1
  /\ evicted = {}
  /\ lastFailure.status = 429
  /\ lastFailure.retryAfter = IntHeader(5)
  /\ lastFailure.retryAfterMs = NoHeader
  /\ now >= 5000

\* every account of the pool has had a pass of this call fail on every
\* endpoint
AllExhausted == Len(accounts) > 0 /\ PoolIds \subseteq exhausted

\* C7: once every endpoint of every account of the pool has failed in the
\* call, the call ends with the last failure: no account is selected for a
\* further pass.
C7_ExhaustionEndsCall ==
  [][ AllExhausted /\ ~aborted /\ pc = "loop" /\ pc' # "loop" => pc' = "done" ]_vars

\* C8: once the call's cancellation signal has fired during a backoff sleep
\* or during the network call, no endpoint is tried and no account is
\* selected, and the call ends with the cancellation error.
C8_CancelShortCircuits ==
  [][ aborted /\ abortedAt \in { "waitAll", "sleep429", "inflight" } =>
        /\ ~(pc = "endpoint" /\ pc' = "inflight")
        /\ ~(pc = "loop" /\ pc' = "auth")
        /\ pc # "done" /\ pc' = "done" => result' = Thrown("Aborted")
    ]_vars

\* the sleeps of the loop
Sleeping == pc \in { "waitAll", "sleep429" }

\* C9: the head of the loop ends the call with the cancellation error when
\* the signal has fired; a pending sleep whose signal has fired rejects
\* whatever the time, never resolves, and the rejection of the
\* all-rate-limited sleep ends the call.
C9_CancellationObserved ==
  /\ [] ( Sleeping /\ aborted => sleep(sleepMs, sleepStart, aborted, now) = "reject" )
  /\ [][ /\ pc = "loop" /\ aborted /\ pc' # "loop" =>
              pc' = "done" /\ result' = Thrown("Aborted")
         /\ Sleeping /\ aborted /\ pc' # pc =>
              /\ lastEvent' \in { "waitAllRejected", "sleep429Rejected" }
              /\ pc = "waitAll" => pc' = "done" /\ result' = Thrown("Aborted")
              /\ pc = "sleep429" => lastError' = "Aborted"
       ]_vars

\* the all-rate-limited sleep was cut short by the signal before its time
C9_Witness ==
  /\ lastEvent = "waitAllRejected"
  /\ result = Thrown("Aborted")
  /\ aborted
  /\ now < MaxTime

\* the refresh of the selected account's token has just failed with
\* invalid_grant, and the call goes on
RevokedAndGoesOn ==
  /\ pc = "auth"
  /\ pc' # "auth"
  /\ lastError' = "invalid_grant"
  /\ lastEvent' \in { "evicted", "refreshFailed" }

\* C10: an invalid_grant of the refresh removes the selected account from
\* the pool; with other accounts left the loop restarts with them and the
\* call has not failed; a removed account is not in the pool again and is
\* not selected again.
C10_RevokedAccountEvicted ==
  /\ [] ( evicted \cap PoolIds = {} )
  /\ [] ( pc \in { "auth", "project", "endpoint", "inflight", "sleep429" } =>
            acct \notin evicted )
  /\ [][ /\ RevokedAndGoesOn =>
              /\ acct \in PoolIds
              /\ acct \notin { accounts'[i].id : i \in 1..Len(accounts') }
              /\ Len(accounts') = Len(accounts) - 1
              /\ Len(accounts') > 0
              /\ acct \in evicted'
              /\ pc' = "loop"
              /\ result' = NoResult
         /\ pc = "auth" /\ lastEvent' = "evictedLast" /\ pc' # "auth" =>
              /\ Len(accounts) = 1
              /\ accounts' = << >>
              /\ result' = Thrown("AllAccountsInvalid")
         /\ pc = "loop" /\ pc' = "auth" => acct' \notin evicted'
       ]_vars

\* after an eviction the call has a request in flight with another account
C10_Witness ==
  /\ evicted # {}
  /\ pc = "inflight"
  /\ acct \in PoolIds
  /\ acct \notin evicted

\* ============================================ properties of the account pool
\* the account at offset k of the rotation that starts at the cursor
RotationId(k) == accounts[((cursor + k) % Len(accounts)) + 1].id

\* the offsets of the rotation whose account's last cooldown has elapsed
ReadyOffsets ==
  { k \in 0..(Len(accounts) - 1) : now >= cooldownUntil[RotationId(k)] }

\* the first account of the rotation whose cooldown has elapsed (0: none)
FirstReady ==
  IF Len(accounts) = 0 \/ ReadyOffsets = {} THEN 0
  ELSE RotationId(CHOOSE k \in ReadyOffsets : \A j \in ReadyOffsets : k <= j)

\* C4: with cooldownUntil[a] the time t0 + t of the last markRateLimited(a, t),
\* pickNext() returns no account whose cooldown has not elapsed (now <
\* t0 + t) and returns the first account in rotation order from the cursor
\* whose cooldown has elapsed (now >= t0 + t), skipping those under cooldown;
\* it returns none only when every account is under cooldown.
C4_CooldownRespected ==
  [][ PoolPickNext =>
        /\ picked' # 0 => now >= cooldownUntil[picked']
        /\ picked' = FirstReady
    ]_vars

\* pickNext() has returned an account whose cooldown has elapsed while
\* another account of the pool is still under cooldown
C4_Witness ==
  /\ lastEvent = "pickNext"
  /\ picked # 0
  /\ cooldownUntil[picked] > 0
  /\ now >= cooldownUntil[picked]
  /\ \E i \in 1..Len(accounts) :
       accounts[i].id # picked /\ now < cooldownUntil[accounts[i].id]

\* C5: with no account under cooldown, the pickNext() calls made in a row on
\* an unchanged pool of N accounts return, within any N of them, pairwise
\* different accounts, each the successor of the one before in pool order;
\* each call returns the account at the cursor and leaves the cursor one
\* past it (modulo N).
C5_RoundRobin ==
  /\ [] ( /\ Len(pickLog) <= Len(accounts)
          /\ \A i \in 1..Len(pickLog) : IndexOfId(accounts, pickLog[i]) # -1
          /\ \A i, j \in 1..Len(pickLog) : i # j => pickLog[i] # pickLog[j]
          /\ \A i \in 1..(Len(pickLog) - 1) :
               IndexOfId(accounts, pickLog[i + 1]) =
                 (IndexOfId(accounts, pickLog[i]) + 1) % Len(accounts)
          /\ pickLog # << >> =>
               cursor = (IndexOfId(accounts, pickLog[Len(pickLog)]) + 1) % Len(accounts) )
  /\ [][ PoolPickNext /\ Len(accounts) > 0 /\ NoCooldown(accounts, now) =>
           /\ picked' = accounts[cursor + 1].id
           /\ cursor' = (cursor + 1) % Len(accounts)
           /\ pickLog' # << >>
       ]_vars

\* N >= 2 pickNext() calls in a row have returned all N accounts
C5_Witness ==
  /\ Len(accounts) >= 2
  /\ Len(pickLog) = Len(accounts)
  /\ lastEvent = "pickNext"

\* idx is an index into a sequence of len elements
InRange(idx, len) == idx \in 0..(len - 1)

\* C6: whenever the pool is non-empty the cursor is an index into it; the
\* activeIndex of a non-empty accounts file the program has written, and of
\* what loadAccounts makes of the file, is an index into its accounts.
C6_CursorInRange ==
  /\ Len(accounts) > 0 => InRange(cursor, Len(accounts))
  /\ disk.exists /\ Len(disk.accounts) > 0 =>
       InRange(disk.activeIndex, Len(disk.accounts))
  /\ Len(loadAccounts(disk).accounts) > 0 =>
       InRange(loadAccounts(disk).activeIndex, Len(loadAccounts(disk).accounts))

\* an account has been removed from a pool whose file still holds it with
\* the cursor on the last account
C6_Witness ==
  /\ lastEvent = "removeAccount"
  /\ Len(accounts) > 0
  /\ disk.exists
  /\ Len(disk.accounts) > Len(accounts)
  /\ disk.activeIndex = Len(disk.accounts) - 1

\* the step evicts the last account of the pool
EvictsLast == pc = "auth" /\ pc' # "auth" /\ Len(accounts) = 1 /\ accounts' = << >>

\* C11 (as the code has it): when an eviction empties the pool the call ends
\* there with the remediation error, with no request issued after the
\* eviction, and the host's credential is cleared if the host's store takes
\* the write; if it refuses, the credential stays as it was.
C11_EmptyPoolAfterEviction ==
  [][ EvictsLast =>
        /\ pc' = "done"
        /\ result' = Thrown("AllAccountsInvalid")
        /\ tried' = tried
        /\ hostAuth' = IF hostWritable THEN "cleared" ELSE hostAuth
    ]_vars

\* C11 (as stated): when an eviction empties the pool the host's credential
\* is cleared and the call ends with the remediation error.
C11_CredentialCleared ==
  [][ EvictsLast =>
        /\ pc' = "done"
        /\ result' = Thrown("AllAccountsInvalid")
        /\ hostAuth' = "cleared"
    ]_vars

\* the last account has been evicted, the credential cleared, the call failed
C11_Witness ==
  /\ lastEvent = "evictedLast"
  /\ accounts = << >>
  /\ hostAuth = "cleared"
  /\ pc = "done"
  /\ result = Thrown("AllAccountsInvalid")

\* the step evicts the account the pass runs with
Evicts ==
  /\ pc = "auth"
  /\ pc' # "auth"
  /\ acct \in PoolIds
  /\ acct \notin { accounts'[i].id : i \in 1..Len(accounts') }

\* the accounts file holds the pool accs with cursor cur
Holds(file, accs, cur) ==
  /\ file.exists
  /\ Len(file.accounts) = Len(accs)
  /\ \A i \in 1..Len(accs) : file.accounts[i] = Meta(accs[i])
  /\ file.activeIndex = cur

\* C12 (as the code has it): when the revocation surfaces (the call throws
\* or goes on with another account) the accounts file holds the pool
\* without the evicted account if the write succeeded; if the write failed
\* the file is as it was and the revocation surfaces all the same.
C12_EvictionPersisted ==
  [][ Evicts =>
        /\ diskWritable => Holds(disk', accounts', cursor')
        /\ ~diskWritable => disk' = disk
        /\ pc' \in { "loop", "done" }
    ]_vars

\* C12 (as stated): when the revocation surfaces the accounts file holds
\* the pool without the evicted account.
C12_AlwaysPersisted ==
  [][ Evicts => Holds(disk', accounts', cursor') ]_vars

\* an account has been evicted, the file holds the remaining pool, and the
\* call goes on
C12_Witness ==
  /\ lastEvent = "evicted"
  /\ pc = "loop"
  /\ evicted # {}
  /\ Len(accounts) > 0
  /\ Holds(disk, accounts, cursor)

\* the step makes a write of the accounts file that fails
FailedWrite == ~diskWritable /\ diskWritable'

\* C13: a step of the call whose write of the accounts file fails leaves
\* the file as it was and goes on as the step does with a successful write:
\* the selected account is used, the refreshed or project-resolved pass
\* goes on, the rate-limited account is marked and the call switches or
\* sleeps, the revoked account is evicted; the call ends at such a step
\* only where it ends with a successful write too (the last account
\* evicted), and a write that is about to fail never keeps the call from
\* taking its next step.
C13_WriteFailureNotFatal ==
  /\ [] ( /\ pc = "loop" => ENABLED LoopHead
          /\ pc = "auth" => ENABLED EnsureAuth
          /\ pc = "project" => ENABLED EnsureProject
          /\ pc = "inflight" => ENABLED RequestSettles )
  /\ [][ FailedWrite =>
           /\ disk' = disk
           /\ lastEvent' \in { "picked", "refreshed", "missingAccess", "projectUpdated",
                               "rateLimitedSwitch", "rateLimitedWait", "evicted",
                               "evictedLast" }
           /\ lastEvent' = "picked" =>
                /\ pc = "loop" /\ pc' = "auth"
                /\ accounts' = accounts
                /\ acct' \in PoolIds
                /\ cursor' = (IndexOfId(accounts, acct') + 1) % Len(accounts)
           /\ lastEvent' = "refreshed" => pc = "auth" /\ pc' = "project"
           /\ lastEvent' = "missingAccess" =>
                pc = "auth" /\ pc' = "loop" /\ lastError' = "MissingAccessToken"
           /\ lastEvent' = "projectUpdated" => pc = "project" /\ pc' = "endpoint"
           /\ lastEvent' = "rateLimitedSwitch" =>
                /\ pc = "inflight" /\ pc' = "loop"
                /\ Len(accounts) > 1
                /\ MarkedNow(accounts', acct, RetryDurationOf(lastFailure'))
           /\ lastEvent' = "rateLimitedWait" =>
                /\ pc = "inflight" /\ pc' = "sleep429"
                /\ Len(accounts) = 1
                /\ MarkedNow(accounts', acct, RetryDurationOf(lastFailure'))
                /\ sleepMs' = RetryDurationOf(lastFailure')
           /\ lastEvent' = "evicted" =>
                /\ pc = "auth" /\ pc' = "loop"
                /\ acct \notin { accounts'[i].id : i \in 1..Len(accounts') }
                /\ Len(accounts') = Len(accounts) - 1
           /\ lastEvent' = "evictedLast" =>
                /\ pc = "auth" /\ accounts' = << >>
                /\ result' = Thrown("AllAccountsInvalid")
           /\ pc' = "done" <=> lastEvent' = "evictedLast"
           /\ lastEvent' # "evictedLast" => result' = NoResult
       ]_vars

\* the write of the rate-limit state failed and the call switched accounts
C13_Witness ==
  /\ lastEvent = "rateLimitedSwitch"
  /\ pc = "loop"
  /\ diskFaults > 0
  /\ diskWritable
  /\ ~Holds(disk, accounts, cursor)

\* C14: within one inbound call at most one upstream request is unsettled at
\* any time: a request is pending only while the call awaits it, it is the
\* request for the current endpoint, and a request is issued only when
\* every earlier one has settled with a response or an error
C14_OneAttemptInFlight ==
  /\ Cardinality(pending) <= 1
  /\ pending # {} <=> pc = "inflight"
  /\ pending \subseteq { ep }

\* a second request of the call is in flight after the first one settled
C14_Witness ==
  /\ pc = "inflight"
  /\ tried = { 0, 1 }
  /\ pending = { 1 }
  /\ lastFailure # NoFailure

\* C15: a call the plugin handles that finds the pool empty at entry, and a
\* call that is not cancelled and finds the pool empty at the top of a loop
\* iteration, fails with the pool-exhausted error, whose message carries the
\* remediation, without selecting an account or issuing a request
C15_EmptyPoolIsFatal ==
  [][ /\ ( /\ pc \in { "idle", "done" } /\ isOAuthAuth(hostAuth) /\ Len(accounts) = 0
           /\ lastEvent' # lastEvent )
        => /\ pc' = "done"
           /\ result' = Thrown("NoAccountsConfigured")
           /\ result'.error \in RemediationErrors
           /\ acct' = 0 /\ tried' = {} /\ pending' = {}
           /\ UNCHANGED << accounts, cursor, disk >>
      /\ ( pc = "loop" /\ ~aborted /\ Len(accounts) = 0 /\ pc' # pc )
        => /\ pc' = "done"
           /\ result' = Thrown("NoAccountsAvailable")
           /\ result'.error \in RemediationErrors
           /\ UNCHANGED << accounts, cursor, disk, acct, tried, pending >>
    ]_vars

\* C15 as stated: every call at the top of a loop iteration with an empty
\* pool fails with the pool-exhausted error
C15_EmptyPoolAlwaysFatal ==
  [][ ( pc = "loop" /\ Len(accounts) = 0 /\ pc' # pc )
        => result' = Thrown("NoAccountsAvailable") ]_vars

\* a call that slept on an all-rate-limited pool found it empty on waking
C15_Witness ==
  /\ pc = "done"
  /\ lastEvent = "noAccounts"
  /\ result = Thrown("NoAccountsAvailable")
  /\ accounts = << >>
  /\ ~aborted

\* C16: persisting the same successful OAuth result again leaves the length
\* of the saved pool as the first persisting left it, and that length is 1
\* when the result has a refresh token and the first persisting started
\* from no stored pool
C16_RepersistKeepsLength ==
  [][ ( /\ store.op = "persist" /\ logins = 1 /\ logins' = 2
        /\ Len(store.results) = 1 )
        => /\ Len(disk'.accounts) = Len(disk.accounts)
           /\ ~store.before.exists /\ store.results[1].refreshToken # ""
                => Len(disk'.accounts) = 1
    ]_vars

\* one result was persisted twice, starting from no stored pool
C16_Witness ==
  /\ store.op = "persist"
  /\ logins = 2
  /\ Len(store.results) = 1
  /\ store.results[1].email = "e1"
  /\ ~store.replaceAll
  /\ Len(store.before.accounts) = 1
  /\ store.before.accounts[1].addedAt = TickMs
  /\ Len(disk.accounts) = 1
  /\ disk.accounts[1].lastUsed = 2 * TickMs

\* C17: every pool persistAccountPool saves, starting from a stored pool that
\* satisfies the pool invariant, and every pool loadAccounts returns,
\* satisfies the pool invariant: each account has a non-empty refresh token
\* and no two accounts share a known email
C17_PoolInvariantKept ==
  /\ ( store.op = "persist" /\ PoolInvariant(store.before.accounts) )
       => PoolInvariant(disk.accounts)
  /\ store.op = "load" => PoolInvariant(store.loaded.accounts)

\* where a record stands in a list of distinct records
PositionIn(list, rec) == CHOOSE i \in 1..Len(list) : list[i] = rec

\* no record of the list with rec's email is newer than rec
NewestOf(list, rec) ==
  \A i \in 1..Len(list) :
    list[i].email = rec.email
      => \/ list[i].lastUsed < rec.lastUsed
         \/ list[i].lastUsed = rec.lastUsed /\ list[i].addedAt <= rec.addedAt

\* C18: deduplicateAccountsByEmail keeps, for each email of the list, exactly
\* one record, one with the greatest lastUsed and among those the greatest
\* addedAt; it keeps every record without email; and the records kept stand
\* in the order they had in the list
C18_DedupKeepsNewest ==
  store.op = "dedup" =>
    LET in == store.list
        out == store.dedup
    IN  /\ \A k \in 1..Len(out) : \E i \in 1..Len(in) : in[i] = out[k]
        /\ \A k, l \in 1..Len(out) :
             k < l => PositionIn(in, out[k]) < PositionIn(in, out[l])
        /\ \A i \in 1..Len(in) :
             in[i].email = NoEmail => \E k \in 1..Len(out) : out[k] = in[i]
        /\ \A i \in 1..Len(in) :
             in[i].email # NoEmail =>
               /\ Cardinality({ k \in 1..Len(out) : out[k].email = in[i].email }) = 1
               /\ \A k \in 1..Len(out) :
                    out[k].email = in[i].email => NewestOf(in, out[k])

\* of two records of one email with the same lastUsed the later-added one
\* was kept, behind the record without email that stood between them
C18_Witness ==
  /\ store.op = "dedup"
  /\ Len(store.list) = 3
  /\ store.list[1].email = "e1" /\ store.list[3].email = "e1"
  /\ store.list[2].email = NoEmail
  /\ store.list[1].lastUsed = store.list[3].lastUsed
  /\ store.list[1].addedAt < store.list[3].addedAt
  /\ store.dedup = << store.list[2], store.list[3] >>

\* the results with a refresh token, the ones persistAccountPool does not skip
WithToken(results) == { k \in 1..Len(results) : results[k].refreshToken # "" }

\* the stored pool is one the plugin wrote: the invariant holds, the cursor is
\* inside the pool
WellFormed(file) ==
  /\ PoolInvariant(file.accounts)
  /\ file.activeIndex \in 0..Max2(0, Len(file.accounts) - 1)

MatchOf(accs, r) ==
  LET byEmail == { i \in 1..Len(accs) : r.email # NoEmail /\ accs[i].email = r.email }
      byToken == { i \in 1..Len(accs) : accs[i].refreshToken = r.refreshToken }
  IN  IF byEmail # {} THEN MaxOf(byEmail)
      ELSE IF byToken # {} THEN MaxOf(byToken)
      ELSE 0

\* a merge of one result with a refresh token into a pool the plugin wrote
MergesOne ==
  /\ store.op \in { "persistInput", "persist" } /\ logins' = logins + 1
  /\ ~store.replaceAll
  /\ Len(store.results) = 1
  /\ store.results[1].refreshToken # ""
  /\ WellFormed(disk)

\* what a merge leaves alone: without a match the stored records, with a
\* match the order, every other record and the addedAt of the matched one
MergeFrame(m) ==
  IF m = 0
    THEN /\ Len(disk'.accounts) = Len(disk.accounts) + 1
         /\ \A k \in 1..Len(disk.accounts) : disk'.accounts[k] = disk.accounts[k]
    ELSE /\ Len(disk'.accounts) = Len(disk.accounts)
         /\ \A k \in 1..Len(disk.accounts) : k # m => disk'.accounts[k] = disk.accounts[k]
         /\ disk'.accounts[m].addedAt = disk.accounts[m].addedAt

\* C20: a merge matches the result by email first, else by refresh token.
\* Without a match the result is appended as a new account with no rate
\* limit. With a match exactly that record is updated: the token is
\* overwritten, the project by the one the result carries (kept when it
\* carries none), the rate-limit flags are reset and lastUsed is now;
\* addedAt, every other record and the order of the pool stay
C20_MergeUpdatesTheMatch ==
  [][ MergesOne =>
        LET r == store.results[1]
            m == MatchOf(disk.accounts, r)
            new == disk'.accounts[IF m = 0 THEN Len(disk'.accounts) ELSE m]
        IN  /\ MergeFrame(m)
            /\ new.refreshToken = r.refreshToken
            /\ ~new.isRateLimited /\ new.rateLimitResetTime = 0
            /\ new.lastUsed = now'
            /\ m = 0 => new.addedAt = now' /\ new.email = r.email
                         /\ new.projectId = r.projectId
            /\ m # 0 => new.projectId = IF r.projectId # NoProject THEN r.projectId
                                         ELSE disk.accounts[m].projectId
    ]_vars

\* C20 as stated: the matched record's project is overwritten with the
\* result's
C20_ProjectOverwritten ==
  [][ MergesOne /\ MatchOf(disk.accounts, store.results[1]) # 0
        => disk'.accounts[MatchOf(disk.accounts, store.results[1])].projectId
             = store.results[1].projectId
    ]_vars

\* the result had the email of the first stored record and the refresh
\* token of the second: the first was updated, the second left as it was
C20_Witness ==
  /\ store.op = "persist"
  /\ logins = 1
  /\ ~store.replaceAll
  /\ Len(store.results) = 1
  /\ Len(store.before.accounts) = 2
  /\ store.before.accounts[1].email = store.results[1].email
  /\ store.before.accounts[1].refreshToken # store.results[1].refreshToken
  /\ store.before.accounts[2].refreshToken = store.results[1].refreshToken
  /\ store.before.accounts[1].isRateLimited
  /\ store.results[1].projectId = "p1"
  /\ Len(disk.accounts) = 2
  /\ disk.accounts[1].refreshToken = store.results[1].refreshToken
  /\ disk.accounts[1].projectId = "p1"
  /\ ~disk.accounts[1].isRateLimited
  /\ disk.accounts[1].lastUsed = now
  /\ disk.accounts[1].addedAt = 0
  /\ disk.accounts[2] = store.before.accounts[2]

\* the loader runs with an OAuth credential that has a refresh token
LoadsWithToken ==
  /\ store.op = "loaderInput" /\ store'.op = "loaded"
  /\ hostAuth = "oauth"

\* accounts are stored and none has the host credential's refresh token
OutOfSync ==
  /\ Len(disk.accounts) > 0
  /\ ~hasMatchingAccount(loadAccounts(disk), store.refresh)

\* the refresh tokens of the accounts of the file
StoredTokens(file) == { file.accounts[i].refreshToken : i \in 1..Len(file.accounts) }

\* C21: when the loader finds stored accounts none of which has the refresh
\* token of the host's credential, and the delete of the accounts file
\* succeeds, the file is cleared before the manager is built: no stored
\* account is in the pool, which holds the host credential's account alone
C21_StalePoolCleared ==
  [][ ( LoadsWithToken /\ OutOfSync /\ diskWritable )
        => /\ \A i \in 1..Len(accounts') :
                accounts'[i].refreshToken \notin StoredTokens(disk)
           /\ Len(accounts') = 1
           /\ accounts'[1].refreshToken = store.refresh
           /\ disk' = toStorage(accounts', cursor')
    ]_vars

\* C21 as stated: whenever no stored account has the host credential's
\* refresh token, no stored account is in the pool the loader builds
C21_StalePoolNeverUsed ==
  [][ ( /\ store.op = "loaderInput" /\ store'.op = "loaded"
        /\ isOAuthAuth(hostAuth)
        /\ ~hasMatchingAccount(loadAccounts(disk),
                               hostRefreshToken(hostAuth, store.refresh)) )
        => \A i \in 1..Len(accounts') :
             accounts'[i].refreshToken \notin StoredTokens(disk)
    ]_vars

\* two stale accounts were stored; the pool holds the host's account alone
C21_Witness ==
  /\ store.op = "loaded"
  /\ hostAuth = "oauth"
  /\ store.refresh = "r3"
  /\ Len(store.before.accounts) = 2
  /\ Len(accounts) = 1
  /\ accounts[1].refreshToken = "r3"
  /\ disk = toStorage(accounts, cursor)

\* the TUI callback has run
Connects == store.op = "connectInput" /\ store'.op = "connected"

C23_UnreadableFileKept ==
  [][ ( Connects /\ disk.exists /\ ~disk.readable ) => disk' = disk ]_vars

\* ============================== properties of the thinking-signature cache
\* a request has just been prepared for a thinking Claude model
Prepares == thinkingCall'.op = "prepared" /\ isClaudeThinkingModel(thinkingCall'.model)

\* a tool-calling turn whose thinking was stripped
StrippedToolTurn(msg, dialect) ==
  /\ msg.role = "model"
  /\ \E i \in 1..Len(msg.parts) :
       IF dialect = "contents" THEN isGeminiToolUsePart(msg.parts[i])
       ELSE isMessageToolUse(msg.parts[i])
  /\ ~messageHasThinking(msg)

\* the turn is now led by a thinking block of this text and signature,
\* followed by what it held
LedBy(before, after, text, sig) == after.parts = << ThinkingPart(text, sig) >> \o before.parts

EntriesOf(cache, key) == { e \in cache : e.key = key }
LastOf(last, key) == [ k \in DOMAIN last \cap { key } |-> last[k] ]

\* C25: a response cached under one session key leaves the exact-text
\* entries and the last signed thinking of every other key as they were, a
\* request changes no other key's either, and what a request under K is
\* prepared to is what it would be were K's entries the only ones
C25_EntriesStayWithinKey ==
  [][ /\ thinkingCall'.op = "responded"
        => \A e \in signatureCache \cup signatureCache' :
             e.key # thinkingCall'.sessionIdArg
               => /\ EntriesOf(signatureCache', e.key) = EntriesOf(signatureCache, e.key)
                  /\ LastOf(lastSignedThinkingBySessionKey', e.key)
                       = LastOf(lastSignedThinkingBySessionKey, e.key)
      /\ thinkingCall'.op = "prepared"
        => LET c == thinkingCall'
               alone == prepareThinking(EntriesOf(signatureCache, c.key),
                                        LastOf(lastSignedThinkingBySessionKey, c.key),
                                        c.model, c.key, c.contents, c.dialect)
           IN  /\ c.prepared = alone.contents
               /\ c.recovered = alone.recovered
               /\ signatureCache' = signatureCache
               /\ \A k \in DOMAIN lastSignedThinkingBySessionKey :
                    k # c.key => LastOf(lastSignedThinkingBySessionKey', k)
                                   = LastOf(lastSignedThinkingBySessionKey, k)
    ]_vars

\* the text "a" is cached under two session keys with two signatures, and
\* a request under one of them was repaired with the signature of its own
C25_Witness ==
  /\ thinkingCall.op = "prepared"
  /\ ~thinkingCall.recovered
  /\ \E e \in signatureCache :
       /\ e.key # thinkingCall.key
       /\ e.text = << "a" >>
       /\ e.signature # getCachedSignature(signatureCache, thinkingCall.key, << "a" >>)
  /\ \E i \in 1..Len(thinkingCall.contents) :
       /\ StrippedToolTurn(thinkingCall.contents[i], thinkingCall.dialect)
       /\ LedBy(thinkingCall.contents[i], thinkingCall.prepared[i], << "a" >>,
                getCachedSignature(signatureCache, thinkingCall.key, << "a" >>))

\* the first model message after the last real user message (0: none)
TurnStart(contents) == analyzeConversationState(contents).turnStartIdx

\* the conversation ends in a tool result and is prepared in the Gemini
\* dialect for a thinking Claude model whose session has no signed thinking
ToolLoopWithoutCacheHit ==
  /\ Prepares
  /\ thinkingCall'.dialect = "contents"
  /\ isToolResultMessage(thinkingCall'.contents[Len(thinkingCall'.contents)])
  /\ TurnStart(thinkingCall'.contents) # 0
  /\ thinkingCall'.key \notin DOMAIN lastSignedThinkingBySessionKey

\* the two synthetic messages that close the tool loop
ClosedBy(model, user) ==
  /\ model.role = "model"
  /\ Len(model.parts) = 1
  /\ model.parts[1].kind = "text"
  /\ model.parts[1].text[Len(model.parts[1].text)]
       \in { "[Tool execution completed.]", " tool executions completed.]" }
  /\ user = Message("user", << TextPart(<< "[Continue]" >>) >>)

SignedPairs(parts) ==
  { SignedThinking(parts[i].text, parts[i].signature) :
      i \in { j \in 1..Len(parts) : /\ isThinking(parts[j])
                                    /\ parts[j].text # << >>
                                    /\ parts[j].signature # NoSignature } }

\* C27: when fetch returns the response of a prepared request, streamed or
\* buffered, every (thinking text, signature) pair the response carries is
\* then stored under the session key of the request as an exact-text entry,
\* and the session key has a last signed thinking
C27_ResponsePairStored ==
  [][ ( thinkingCall'.op = "responded" /\ thinkingCall'.sessionIdArg # thinkingCall'.key )
        => \A pair \in SignedPairs(thinkingCall'.response) :
             /\ getCachedSignature(signatureCache', thinkingCall'.key, pair.text)
                  = pair.signature
             /\ thinkingCall'.key \in DOMAIN lastSignedThinkingBySessionKey'
    ]_vars

\* ===================================================== properties of toasts
\* C28: a call that awaits a toast goes on, whether the TUI answers, fails
\* or never answers
C28_ToastNeverBlocks == (toast.phase = "pending") ~> (toast.phase # "pending")

\* ============================================ properties of concurrent calls
\* the accounts file holds the account of this id
Stored(file, id) ==
  \E i \in 1..Len(file.accounts) : file.accounts[i].refreshToken = TokenNames[id]

\* C29: once the eviction of an account has reached the accounts file, no
\* write of another call or of a login puts the account back
C29_NoWriteUndoesEviction ==
  [][ \A id \in evicted : ~Stored(disk, id) => ~Stored(disk', id) ]_vars

\* ================================================ properties of the cooldown
\* the header parses to a positive integer
Positive(raw) == headerOf(raw).kind = "int" /\ headerOf(raw).value > 0

\* C30: the cooldown taken from a 429 is the value of the retry-after-ms
\* header when that parses to a positive integer, else 1000 times the value
\* of the retry-after header when that does, else the default of 60 000 ms,
\* and so is always greater than 0
C30_CooldownFromHeaders ==
  lastEvent = "retryAfter"
    => /\ sleepMs > 0
       /\ sleepMs = IF Positive(lastFailure.rawMs) THEN headerOf(lastFailure.rawMs).value
                    ELSE IF Positive(lastFailure.rawSec)
                      THEN 1000 * headerOf(lastFailure.rawSec).value
                    ELSE DefaultRetryMs

\* retry-after-ms: 0 and retry-after: 7x give a cooldown of 7000 ms
C30_Witness ==
  /\ lastEvent = "retryAfter"
  /\ lastFailure.rawMs = << "0" >>
  /\ lastFailure.rawSec = << "7", "x" >>
  /\ sleepMs = 7000


\* ============================== the identifiers of the function calls (C31)
\* the most contents of a payload and the most parts of a content
MaxContents == 2
MaxParts == 2

\* an id or a name is a string, << >> when the part has none
NoId == << >>
NoName == << >>
CallIds == { NoId, << "x" >>, << "tool-call-", "1" >> }
ToolNames == { NoName, << "n" >>, << "m" >> }

FunctionCallPart(name, id) == [ kind |-> "functionCall", name |-> name, id |-> id ]
FunctionResponsePart(name, id) == [ kind |-> "functionResponse", name |-> name, id |-> id ]
PlainPart == [ kind |-> "text", name |-> NoName, id |-> NoId ]

BackfillParts ==
  { FunctionCallPart(n, i) : n \in ToolNames, i \in CallIds }
    \cup { FunctionResponsePart(n, i) : n \in ToolNames, i \in CallIds }
    \cup { PlainPart }
BackfillContent == UNION { [ 1..n -> BackfillParts ] : n \in 1..MaxParts }

\* the parts of the contents in their order
RECURSIVE Flatten(_)
Flatten(contents) ==
  IF contents = << >> THEN << >> ELSE Head(contents) \o Flatten(Tail(contents))

\* the ids a history carries are those of distinct calls: no two calls and
\* no two responses of it carry the same id
DistinctIds(parts) ==
  \A i \in 1..Len(parts), j \in 1..Len(parts) :
    i # j /\ parts[i].kind = parts[j].kind /\ parts[i].kind # "text" /\ parts[i].id # NoId
      => parts[i].id # parts[j].id

BackfillContents ==
  { contents \in UNION { [ 1..n -> BackfillContent ] : n \in 1..MaxContents } :
      DistinctIds(Flatten(contents)) }

\* `tool-call-${n}` and `tool-${n}`
numberString(n) == IF n = 0 THEN "0" ELSE DigitNames[n]
toolCallId(n) == << "tool-call-", numberString(n) >>
toolKey(n) == << "tool-", numberString(n) >>

\* pendingCallIdsByName.get(name) || []
queueOf(pendingCallIdsByName, name) ==
  IF name \in DOMAIN pendingCallIdsByName THEN pendingCallIdsByName[name] ELSE << >>

\* the first pass on one part: a call without id gets the next generated
\* id, and the id of every call is queued under its name
assignCallId(st, part) ==
  IF part.kind # "functionCall" THEN [ st EXCEPT !.out = Append(st.out, part) ]
  ELSE LET counter == IF part.id = NoId THEN st.toolCallCounter + 1 ELSE st.toolCallCounter
           id == IF part.id = NoId THEN toolCallId(counter) ELSE part.id
           nameKey == IF part.name # NoName THEN part.name ELSE toolKey(counter)
       IN  [ toolCallCounter |-> counter,
             pendingCallIdsByName |->
               MapSet(st.pendingCallIdsByName, nameKey,
                      Append(queueOf(st.pendingCallIdsByName, nameKey), id)),
             out |-> Append(st.out, [ part EXCEPT !.id = id ]) ]

\* the second pass on one part: a response without id and with a name takes
\* the first id still queued under its name
matchResponseId(st, part) ==
  IF part.kind # "functionResponse" THEN [ st EXCEPT !.out = Append(st.out, part) ]
  ELSE LET queue == queueOf(st.pendingCallIdsByName, part.name)
       IN  IF part.id = NoId /\ part.name # NoName /\ queue # << >>
           THEN [ st EXCEPT !.pendingCallIdsByName =
                              MapSet(st.pendingCallIdsByName, part.name, Tail(queue)),
                            !.out = Append(st.out, [ part EXCEPT !.id = Head(queue) ]) ]
           ELSE [ st EXCEPT !.out = Append(st.out, part) ]

\* content.parts.map(...) of a pass, with the counter and the queues it leaves
RECURSIVE mapParts(_, _, _)
mapParts(pass, st, parts) ==
  IF parts = << >> THEN st
  ELSE mapParts(pass,
                IF pass = 1 THEN assignCallId(st, Head(parts))
                ELSE matchResponseId(st, Head(parts)),
                Tail(parts))

\* requestPayload.contents.map(...) of a pass
RECURSIVE mapContents(_, _, _)
mapContents(pass, st, contents) ==
  IF contents = << >> THEN st
  ELSE LET done == mapParts(pass, [ st EXCEPT !.out = << >> ], Head(contents))
       IN  mapContents(pass,
                       [ done EXCEPT !.out = Append(st.out, done.out) ],
                       Tail(contents))

\* the two passes of the tool call id backfill
backfillToolCallIds(contents) ==
  LET first == mapContents(1, [ toolCallCounter |-> 0,
                                pendingCallIdsByName |-> << >>, out |-> << >> ],
                           contents)
      second == mapContents(2, [ first EXCEPT !.out = << >> ], first.out)
  IN  second.out

payloadFrame ==
  UNCHANGED << now, poolVars, hostAuth, hostWritable, thinkingVars, toast, callVars,
               evicted, ghostVars, lastEvent >>

\* a request for a Claude model arrives with its contents
BackfillRequest ==
  /\ payload.op = "none"
  /\ \E contents \in BackfillContents :
       payload' = [ op |-> "request", contents |-> contents, out |-> << >> ]
  /\ payloadFrame

\* prepareAntigravityRequest backfills the ids
Backfill ==
  /\ payload.op = "request"
  /\ payload' = [ payload EXCEPT !.op = "backfilled",
                                 !.out = backfillToolCallIds(payload.contents) ]
  /\ payloadFrame

NextBackfill == BackfillRequest \/ Backfill

SpecBackfill == InitPool /\ [][NextBackfill]_vars

\* the positions of the parts of a kind and a name
PositionsOf(parts, kind, name) ==
  { i \in 1..Len(parts) : parts[i].kind = kind /\ parts[i].name = name }
\* the k-th smallest position of a set of positions
KthOf(positions, k) ==
  CHOOSE i \in positions : Cardinality({ j \in positions : j < i }) = k - 1

\* C31: after the backfill every function call has an id, the k-th response
\* of a name that lacked an id carries the id of the k-th call of that name,
\* and no two responses carry the same call id
C31_ResponsesPairedOneToOne ==
  payload.op = "backfilled"
    => LET before == Flatten(payload.contents)
           after == Flatten(payload.out)
           responses == { i \in 1..Len(after) : after[i].kind = "functionResponse" }
       IN  /\ \A i \in 1..Len(after) : after[i].kind = "functionCall" => after[i].id # NoId
           /\ \A name \in ToolNames \ { NoName } :
                LET calls == PositionsOf(after, "functionCall", name)
                    lacking == { i \in PositionsOf(before, "functionResponse", name) :
                                   before[i].id = NoId }
                IN  \A k \in 1..Cardinality(lacking) :
                      k <= Cardinality(calls)
                        => after[KthOf(lacking, k)].id = after[KthOf(calls, k)].id
           /\ \A i \in responses, j \in responses :
                i # j /\ after[i].id # NoId => after[i].id # after[j].id


\* ==================================== the streamed response (C32 and C40)
\* the most lines of a streamed body
MaxLines == 2

\* a body is a sequence of characters; "{", "r", "}" is a JSON object with a
\* response field, "{", "}" one without, "R" the reshaped response once it
\* is serialised and "D" the one with the debug thinking injected
Newline == "\n"
DataPrefix == << "d", ":" >>
SseLines ==
  { << "d", ":", "{", "r", "}" >>,
    << "d", ":", " ", "{", "r", "}", " " >>,
    << "d", ":", "{", "r" >>,
    << "d", ":", "{", "}" >>,
    << "d", ":", " " >>,
    << ":", "x" >>,
    << >>,
    << "{", "r", "}" >> }

\* lines.join("\n")
RECURSIVE join(_)
join(lines) ==
  IF lines = << >> THEN << >>
  ELSE IF Len(lines) = 1 THEN Head(lines)
  ELSE Head(lines) \o << Newline >> \o join(Tail(lines))

\* the bodies upstream sends: lines with or without a last line feed
SseBodies ==
  LET lists == UNION { [ 1..n -> SseLines ] : n \in 1..MaxLines }
  IN  { join(l) : l \in lists } \cup { join(l) \o << Newline >> : l \in lists }

\* s.split("\n")
RECURSIVE split(_)
split(s) ==
  IF \A i \in 1..Len(s) : s[i] # Newline THEN << s >>
  ELSE LET i == CHOOSE k \in 1..Len(s) :
                  s[k] = Newline /\ \A j \in 1..(k - 1) : s[j] # Newline
       IN  << SubSeq(s, 1, i - 1) >> \o split(SubSeq(s, i + 1, Len(s)))

\* line.startsWith("data:")
startsWithData(line) == Len(line) >= 2 /\ SubSeq(line, 1, 2) = DataPrefix

\* JSON.parse(json): the parsed object, or "throws"
parseJson(json) ==
  IF json = << "{", "r", "}" >> THEN "wrapped"
  ELSE IF json = << "{", "}" >> THEN "bare"
  ELSE "throws"

\* transformSseLine: the line as it is forwarded, and whether the debug
\* thinking has been injected by now
transformSseLine(line, debugText, injected) ==
  IF ~startsWithData(line) THEN [ line |-> line, injected |-> injected ]
  ELSE LET json == trim(SubSeq(line, 3, Len(line)))
       IN  IF json = << >> THEN [ line |-> line, injected |-> injected ]
           ELSE IF parseJson(json) = "wrapped"
             THEN [ line |-> << "d", ":", " ",
                                IF debugText /\ ~injected THEN "D" ELSE "R" >>,
                    injected |-> injected \/ debugText ]
           ELSE [ line |-> line, injected |-> injected ]

\* transformStreamingPayload: the whole body at once, without debug text
RECURSIVE mapLines(_)
mapLines(lines) ==
  IF lines = << >> THEN << >>
  ELSE << transformSseLine(Head(lines), FALSE, FALSE).line >> \o mapLines(Tail(lines))
transformStreamingPayload(body) == join(mapLines(split(body)))

\* for (const line of lines) controller.enqueue(transformedLine + "\n")
RECURSIVE enqueueLines(_, _, _)
enqueueLines(st, lines, debugText) ==
  IF lines = << >> THEN st
  ELSE LET t == transformSseLine(Head(lines), debugText, st.injected)
       IN  enqueueLines([ out |-> st.out \o t.line \o << Newline >>,
                          injected |-> t.injected ],
                        Tail(lines), debugText)

\* a transform that forwards what it holds at the end of each chunk
transformChunkEager(st, chunk, debugText) ==
  LET lines == split(st.buffer \o chunk)
      done == enqueueLines([ out |-> st.out, injected |-> st.injected ],
                           SubSeq(lines, 1, Len(lines) - 1), debugText)
      t == transformSseLine(lines[Len(lines)], debugText, done.injected)
  IN  [ buffer |-> << >>, out |-> done.out \o t.line, injected |-> t.injected ]

\* a transform that holds every line back until the stream ends
transformChunkHeld(st, chunk, debugText) ==
  [ st EXCEPT !.buffer = st.buffer \o chunk ]

\* transform(chunk, controller) of createStreamingTransformer
transformChunk(st, chunk, debugText) ==
  LET lines == split(st.buffer \o chunk)
      done == enqueueLines([ out |-> st.out, injected |-> st.injected ],
                           SubSeq(lines, 1, Len(lines) - 1), debugText)
  IN  [ buffer |-> lines[Len(lines)], out |-> done.out, injected |-> done.injected ]

\* flush(controller) of createStreamingTransformer
flush(st, debugText) ==
  IF st.buffer = << >> THEN st
  ELSE LET t == transformSseLine(st.buffer, debugText, st.injected)
       IN  [ buffer |-> st.buffer, out |-> st.out \o t.line, injected |-> t.injected ]

\* a streamed response starts: its body and whether debug text is set
StreamStarts ==
  /\ payload.op = "none"
  /\ \E body \in SseBodies, debugText \in BOOLEAN :
       payload' = [ op |-> "streaming", body |-> body, debugText |-> debugText,
                    received |-> 0, buffer |-> << >>, out |-> << >>,
                    injected |-> FALSE, chunks |-> 0, midLine |-> FALSE ]
  /\ payloadFrame

\* upstream delivers the next chunk, of any length the body still has
StreamChunk ==
  /\ payload.op = "streaming"
  /\ payload.received < Len(payload.body)
  /\ \E n \in 1..(Len(payload.body) - payload.received) :
       LET chunk == SubSeq(payload.body, payload.received + 1, payload.received + n)
           st == transformChunk([ buffer |-> payload.buffer, out |-> payload.out,
                                  injected |-> payload.injected ],
                                chunk, payload.debugText)
       IN  payload' = [ payload EXCEPT !.received = payload.received + n,
                                       !.buffer = st.buffer, !.out = st.out,
                                       !.injected = st.injected,
                                       !.chunks = payload.chunks + 1,
                                       !.midLine = payload.midLine \/ st.buffer # << >> ]
  /\ payloadFrame

\* the upstream body ends
StreamEnds ==
  /\ payload.op = "streaming"
  /\ payload.received = Len(payload.body)
  /\ LET st == flush([ buffer |-> payload.buffer, out |-> payload.out,
                       injected |-> payload.injected ], payload.debugText)
     IN  payload' = [ payload EXCEPT !.op = "flushed",
                                     !.out = st.out, !.injected = st.injected ]
  /\ payloadFrame

NextStream == StreamStarts \/ StreamChunk \/ StreamEnds

SpecStream == InitPool /\ [][NextStream]_vars


\* ------------------------------------------ properties of the streamed response
\* the body received so far, its lines, and those of them that are complete
Received == SubSeq(payload.body, 1, payload.received)
CompleteLines == SubSeq(split(Received), 1, Len(split(Received)) - 1)
\* the lines forwarded so far, each ended by its line feed
ForwardedLines == SubSeq(split(payload.out), 1, Len(split(payload.out)) - 1)

\* the payload of a data: line
PayloadOf(line) == trim(SubSeq(line, 3, Len(line)))
CarriesWrapped(line) == startsWithData(line) /\ PayloadOf(line) = << "{", "r", "}" >>
Malformed(line) == startsWithData(line) /\ PayloadOf(line) \notin { << "{", "r", "}" >>, << "{", "}" >> }
Reshaped(debugText) ==
  { << "d", ":", " ", "R" >> } \cup (IF debugText THEN { << "d", ":", " ", "D" >> } ELSE {})

\* what a line is forwarded as
ForwardedAs(line, forwarded, debugText) ==
  /\ CarriesWrapped(line) => forwarded \in Reshaped(debugText)
  /\ ~startsWithData(line) \/ Malformed(line) => forwarded = line

\* C32: while the response streams, every line that is complete in what has
\* been received has been forwarded already, a data: line carrying a wrapped
\* response as its unwrapped and reshaped response, a line that is no data:
\* line or whose payload is malformed verbatim
C32_LinesForwardedWhenComplete ==
  payload.op = "streaming"
    => /\ Len(ForwardedLines) = Len(CompleteLines)
       /\ split(payload.out)[Len(split(payload.out))] = << >>
       /\ \A k \in 1..Len(CompleteLines) :
            ForwardedAs(CompleteLines[k], ForwardedLines[k], payload.debugText)

\* a wrapped response has been forwarded while the line after it is still
\* incomplete and more of the body is to come
C32_Witness ==
  /\ payload.op = "streaming"
  /\ payload.received < Len(payload.body)
  /\ payload.buffer # << >>
  /\ Len(CompleteLines) = 1
  /\ CompleteLines[1] = << "d", ":", " ", "{", "r", "}", " " >>
  /\ payload.out = << "d", ":", " ", "R", Newline >>

\* the whole body delivered as one chunk
WholeBody(body, debugText) ==
  flush(transformChunk([ buffer |-> << >>, out |-> << >>, injected |-> FALSE ],
                       body, debugText), debugText).out

\* C40: once the stream has ended, what was forwarded is what the body
\* delivered as one chunk is forwarded as, and without debug text it is the
\* line-by-line transform of the whole body, however the body was cut
C40_ChunkingIndependent ==
  payload.op = "flushed"
    => /\ payload.out = WholeBody(payload.body, payload.debugText)
       /\ ~payload.debugText => payload.out = transformStreamingPayload(payload.body)

\* a body of two lines, the first a wrapped response, delivered in three
\* chunks or more of which one ended in the middle of a line
C40_Witness ==
  /\ payload.op = "flushed"
  /\ payload.chunks >= 3
  /\ payload.midLine
  /\ Len(split(payload.body)) = 2
  /\ CarriesWrapped(split(payload.body)[1])
  /\ Malformed(split(payload.body)[2])
  /\ payload.out = << "d", ":", " ", "R", Newline >> \o split(payload.body)[2]


\* ================================= the retry delay of a failed response (C33)
\* tenths of a second stand for the seconds parseFloat reads: "3.5" is 35
RetryDelays ==
  { << >>, << "3", ".", "5", "s" >>, << "2", "s" >>, << "0", "s" >>,
    << "3", ".", "5" >>, << ".", "s" >> }

\* retryDelay.match(/^([\d.]+)s$/): the digits and dots before a final "s",
\* << >> when the string does not match
matchDelay(retryDelay) ==
  IF /\ Len(retryDelay) >= 2
     /\ retryDelay[Len(retryDelay)] = "s"
     /\ \A i \in 1..(Len(retryDelay) - 1) : retryDelay[i] \in { "0", "2", "3", "5", "." }
  THEN SubSeq(retryDelay, 1, Len(retryDelay) - 1)
  ELSE << >>

digitOf(c) == IF c = "2" THEN 2 ELSE IF c = "3" THEN 3 ELSE IF c = "5" THEN 5 ELSE 0

\* parseFloat of one digit, optionally followed by a dot and one digit, in
\* tenths; -1 stands for NaN
parseFloatTenths(s) ==
  IF s = << >> \/ Head(s) = "." THEN -1
  ELSE IF Len(s) >= 3 /\ s[2] = "." /\ s[3] # "." THEN 10 * digitOf(s[1]) + digitOf(s[3])
  ELSE 10 * digitOf(s[1])

\* Math.ceil(seconds) and Math.ceil(seconds * 1000)
ceilSeconds(tenths) == (tenths + 9) \div 10
ceilMillis(tenths) == tenths * 100

\* the parsed body of a failed response: what JSON.parse(text) gives, or
\* { error: { message: text } } when it throws
ErrorBodies ==
  { [ parses |-> FALSE, hasError |-> FALSE, hasRetryInfo |-> FALSE, retryDelay |-> << >> ],
    [ parses |-> TRUE, hasError |-> FALSE, hasRetryInfo |-> FALSE, retryDelay |-> << >> ],
    [ parses |-> TRUE, hasError |-> TRUE, hasRetryInfo |-> FALSE, retryDelay |-> << >> ] }
    \cup { [ parses |-> TRUE, hasError |-> TRUE, hasRetryInfo |-> TRUE, retryDelay |-> d ] :
             d \in RetryDelays }
ContentTypes == { "application/json", "text/event-stream", "text/html" }
UpstreamRetryAfter == { NoHeader, IntHeader(7) }

\* errorBody after lines 1495-1500
errorBodyOf(body) ==
  IF body.parses THEN body
  ELSE [ parses |-> TRUE, hasError |-> TRUE, hasRetryInfo |-> FALSE, retryDelay |-> << >> ]

\* the retry headers of the response transformAntigravityResponse returns
\* for a response that is not ok, and whether the debug info was injected
errorResponse(response, streaming) ==
  LET upstream == [ retryAfter |-> response.retryAfter, retryAfterMs |-> NoHeader,
                    debugInfo |-> FALSE ]
      errorBody == errorBodyOf(response.body)
      tenths == parseFloatTenths(matchDelay(errorBody.retryDelay))
  IN  IF response.contentType \notin { "application/json", "text/event-stream" }
      THEN upstream
      ELSE IF response.ok THEN upstream
      ELSE IF errorBody.hasError THEN [ upstream EXCEPT !.debugInfo = TRUE ]
      ELSE IF /\ errorBody.hasError
              /\ errorBody.hasRetryInfo
              /\ errorBody.retryDelay # << >>
              /\ matchDelay(errorBody.retryDelay) # << >>
              /\ tenths > 0
        THEN [ retryAfter |-> IntHeader(ceilSeconds(tenths)),
               retryAfterMs |-> IntHeader(ceilMillis(tenths)),
               debugInfo |-> FALSE ]
      ELSE upstream

\* upstream answers
ErrorArrives ==
  /\ payload.op = "none"
  /\ \E ok \in BOOLEAN, contentType \in ContentTypes, body \in ErrorBodies,
        retryAfter \in UpstreamRetryAfter, streaming \in BOOLEAN :
       payload' = [ op |-> "response",
                    response |-> [ ok |-> ok, contentType |-> contentType, body |-> body,
                                   retryAfter |-> retryAfter ],
                    streaming |-> streaming,
                    returned |-> [ retryAfter |-> NoHeader, retryAfterMs |-> NoHeader,
                                   debugInfo |-> FALSE ] ]
  /\ payloadFrame

\* transformAntigravityResponse returns the translated response
TranslateError ==
  /\ payload.op = "response"
  /\ payload' = [ payload EXCEPT !.op = "translated",
                                 !.returned = errorResponse(payload.response, payload.streaming) ]
  /\ payloadFrame

NextErrorResponse == ErrorArrives \/ TranslateError

SpecErrorResponse == InitPool /\ [][NextErrorResponse]_vars

\* C33: a failed buffered response whose error details carry a retry delay
\* of s seconds, written like "3.5s", is translated into a response with
\* Retry-After = ceil(s) and retry-after-ms = ceil(s * 1000)
C33_RetryDelayBecomesHeaders ==
  LET tenths == IF payload.op = "translated"
                THEN parseFloatTenths(matchDelay(payload.response.body.retryDelay))
                ELSE -1
  IN  /\ payload.op = "translated"
      /\ ~payload.response.ok
      /\ payload.response.contentType \in { "application/json", "text/event-stream" }
      /\ payload.response.body.hasRetryInfo
      /\ tenths > 0
      => /\ payload.returned.retryAfter = IntHeader(ceilSeconds(tenths))
         /\ payload.returned.retryAfterMs = IntHeader(ceilMillis(tenths))


\* ======================================= the thinking configuration (C34)
DEFAULT_THINKING_BUDGET == 16000

\* a ThinkingConfig, and undefined
NoConfig == [ defined |-> FALSE, includeThoughts |-> FALSE, thinkingBudget |-> 0 ]
ThinkingConfig(includeThoughts, thinkingBudget) ==
  [ defined |-> TRUE, includeThoughts |-> includeThoughts, thinkingBudget |-> thinkingBudget ]
UserConfigs == { NoConfig, ThinkingConfig(TRUE, 8000), ThinkingConfig(FALSE, 0) }

ConfigModels ==
  { ClaudeThinking, << "CLAUDE", "opus" >>, << "claude", "sonnet" >>,
    << "gemini-3" >>, << "gemini" >> }

\* isThinkingCapableModel and isClaudeModel
isThinkingCapableModel(model) ==
  \/ includes(toLowerCase(model), "thinking")
  \/ includes(toLowerCase(model), "gemini-3")
  \/ includes(toLowerCase(model), "opus")
isClaudeModel(model) == includes(toLowerCase(model), "claude")

\* requestPayload.contents.some(c => c.role === "model" || c.role === "assistant")
hasAssistantHistory(contents) ==
  \E i \in 1..Len(contents) : contents[i].role \in { "model", "assistant" }

\* a resolution that does not look at the history
resolveThinkingConfigAnyHistory(userConfig, isThinkingModel, isClaude, hasHistory) ==
  IF isThinkingModel /\ ~userConfig.defined
  THEN ThinkingConfig(TRUE, DEFAULT_THINKING_BUDGET)
  ELSE userConfig

\* resolveThinkingConfig(userConfig, isThinkingModel, isClaudeModel,
\* hasAssistantHistory)
resolveThinkingConfig(userConfig, isThinkingModel, isClaude, hasHistory) ==
  IF isClaude /\ hasHistory THEN ThinkingConfig(FALSE, 0)
  ELSE IF isThinkingModel /\ ~userConfig.defined
    THEN ThinkingConfig(TRUE, DEFAULT_THINKING_BUDGET)
  ELSE userConfig

\* normalizeThinkingConfig: thoughts are included only with a budget above 0
normalizeThinkingConfig(config) ==
  IF ~config.defined THEN NoConfig
  ELSE ThinkingConfig(config.thinkingBudget > 0 /\ config.includeThoughts,
                      config.thinkingBudget)

\* the thinkingConfig written to generationConfig: whether there is one, its
\* include flag and the budget it carries (0: none)
sentThinkingConfig(userConfig, model, contents) ==
  LET normalized ==
        normalizeThinkingConfig(
          resolveThinkingConfig(userConfig, isThinkingCapableModel(model),
                                isClaudeModel(model), hasAssistantHistory(contents)))
  IN  IF ~normalized.defined THEN NoConfig
      ELSE ThinkingConfig(normalized.includeThoughts,
                          IF normalized.thinkingBudget > 0 THEN normalized.thinkingBudget
                          ELSE 0)

\* the histories: a first question, a tool loop whose thinking is signed,
\* and tool loops whose thinking is missing or unsigned
ConfigHistories == { << UserTurn >> } \cup ToolLoops
\* what the session has seen signed before the request
ConfigLast(key) ==
  { << >>, MapSet(<< >>, key, SignedThinking(<< "a" >>, "s1")) }

\* prepareAntigravityRequest: the thinking configuration is resolved, then
\* the thinking of the history is repaired
ResolveThinking ==
  /\ payload.op = "none"
  /\ \E model \in ConfigModels, userConfig \in UserConfigs,
        contents \in ConfigHistories :
       LET key == buildSignatureSessionKey(PLUGIN_SESSION_ID, model, << >>, << "p1" >>)
       IN  \E last \in ConfigLast(key) :
             LET prepared == prepareThinking({}, last, model, key, contents, "contents")
             IN  payload' =
                   [ op |-> "resolved", model |-> model, userConfig |-> userConfig,
                     contents |-> contents, last |-> last,
                     prepared |-> prepared.contents, recovered |-> prepared.recovered,
                     sent |-> sentThinkingConfig(userConfig, model, contents) ]
  /\ payloadFrame

\* the request is sent and the next one may come
ConfigSent ==
  /\ payload.op = "resolved"
  /\ payload' = NoPayload
  /\ payloadFrame

NextThinkingConfig == ResolveThinking \/ ConfigSent

SpecThinkingConfig == InitPool /\ [][NextThinkingConfig]_vars

\* the repair gave a tool turn that had no signed thinking a signed one
RepairSucceeded ==
  /\ payload.op = "resolved"
  /\ ~payload.recovered
  /\ \E i \in 1..Len(payload.contents) :
       /\ \E j \in 1..Len(payload.contents[i].parts) :
            isGeminiToolUsePart(payload.contents[i].parts[j])
       /\ \A j \in 1..Len(payload.contents[i].parts) :
            ~hasSignedThinkingPart(payload.contents[i].parts[j])
       /\ \E j \in 1..Len(payload.prepared[i].parts) :
            hasSignedThinkingPart(payload.prepared[i].parts[j])
ForcedOff == payload.sent = ThinkingConfig(FALSE, 0)

\* C34: for a Claude model whose conversation already has assistant turns
\* thinking is forced off, no thoughts included and no budget sent, whether
\* or not the repair of the history succeeds; a thinking-capable model
\* without assistant turns and without explicit configuration gets thinking
\* enabled with the default budget
C34_HistoryForcesThinkingOff ==
  payload.op = "resolved"
    => /\ isClaudeModel(payload.model) /\ hasAssistantHistory(payload.contents) => ForcedOff
       /\ /\ isThinkingCapableModel(payload.model)
          /\ ~hasAssistantHistory(payload.contents)
          /\ ~payload.userConfig.defined
          => payload.sent = ThinkingConfig(TRUE, DEFAULT_THINKING_BUDGET)

\* C34 as stated: when the repair succeeds thinking is not forced off
C34_RepairKeepsThinkingOn ==
  /\ RepairSucceeded
  /\ isClaudeThinkingModel(payload.model)
  => ~ForcedOff

\* the repair has succeeded for a thinking Claude model that asked for
\* thinking, and thinking is forced off
C34_Witness ==
  /\ RepairSucceeded
  /\ payload.model = ClaudeThinking
  /\ payload.userConfig = ThinkingConfig(TRUE, 8000)
  /\ ForcedOff


\* ========================================= the normalization of tools (C35)
\* the most entries of payload.tools and declarations of one entry
MaxTools == 2
MaxDecls == 2

\* a schema as the tool carries it: none, a string, an object without
\* properties, an object with properties
Schemas == { "none", "string", "empty", "props" }
SchemaFields == { "parameters", "parametersJsonSchema", "input_schema", "inputSchema" }
DeclNames == { NoName, << "t", "." >> }

\* a declaration: its name and its schema under one of the schema fields
Decl(name, field, schema) == [ name |-> name, field |-> field, schema |-> schema ]
Decls ==
  { Decl(n, "parameters", "none") : n \in DeclNames }
    \cup { Decl(n, f, sc) : n \in DeclNames, f \in { "parameters", "inputSchema" },
                            sc \in Schemas \ { "none" } }

\* a tool entry: { functionDeclarations: [...] }, { function: decl },
\* { custom: decl }, a declaration at the top level of the entry, or an
\* entry of another kind such as { codeExecution: {} }
Tool(style, decl, decls) == [ style |-> style, decl |-> decl, decls |-> decls ]
NoDecl == Decl(NoName, "parameters", "none")
ToolEntries ==
  { Tool("functionDeclarations", NoDecl, ds) :
      ds \in UNION { [ 1..n -> Decls ] : n \in 0..MaxDecls } }
    \cup { Tool(st, d, << >>) : st \in { "function", "custom" }, d \in Decls }
    \cup { Tool("top", Decl(n, f, sc), << >>) :
             n \in DeclNames, f \in SchemaFields, sc \in { "empty", "props" } }
    \cup { Tool("top", Decl(<< "t", "." >>, "parameters", "none"), << >>),
           Tool("codeExecution", NoDecl, << >>) }
ToolLists == UNION { [ 1..n -> ToolEntries ] : n \in 0..MaxTools }

\* the placeholder schema, and a schema of the tool once it is cleaned
PlaceholderSchema == "placeholder"
CleanedSchema == "cleaned"

\* a normalizeSchema that counts every placeholder it hands out
normalizeSchemaCountsAll(schema) ==
  IF schema \in { "none", "string", "empty" }
  THEN [ parameters |-> PlaceholderSchema, missing |-> 1 ]
  ELSE [ parameters |-> CleanedSchema, missing |-> 0 ]

\* normalizeSchema: a schema that is no object is counted and replaced by
\* the placeholder schema; an object without properties gets the
\* placeholder property and the required list, which makes { type: "object" }
\* the placeholder schema, and is not counted
normalizeSchema(schema) ==
  IF schema \in { "none", "string" } THEN [ parameters |-> PlaceholderSchema, missing |-> 1 ]
  ELSE IF schema = "empty" THEN [ parameters |-> PlaceholderSchema, missing |-> 0 ]
  ELSE [ parameters |-> CleanedSchema, missing |-> 0 ]

\* String(name).replace(/[^a-zA-Z0-9_-]/g, "_")
sanitizeName(name) == [ i \in 1..Len(name) |-> IF name[i] = "." THEN "_" ELSE name[i] ]

\* pushDeclaration(decl, source)
pushDeclaration(st, decl, source) ==
  LET name == sanitizeName(IF decl.name # NoName THEN decl.name
                           ELSE toolKey(Len(st.functionDeclarations)))
      normalized == normalizeSchema(decl.schema)
  IN  [ st EXCEPT !.functionDeclarations =
                    Append(st.functionDeclarations,
                           [ name |-> name, parameters |-> normalized.parameters ]),
                  !.toolDebugMissing = st.toolDebugMissing + normalized.missing,
                  !.toolDebugSummaries =
                    Append(st.toolDebugSummaries,
                           [ decl |-> name, src |-> source,
                             hasSchema |-> decl.schema # "none" ]) ]

RECURSIVE pushDeclarations(_, _)
pushDeclarations(st, decls) ==
  IF decls = << >> THEN st
  ELSE pushDeclarations(pushDeclaration(st, Head(decls), "functionDeclarations"),
                        Tail(decls))

\* the test of the fall-back: t.function || t.custom || t.parameters ||
\* t.input_schema || t.inputSchema || t.name
isFunctionOrCustom(tool) ==
  \/ tool.style \in { "function", "custom" }
  \/ /\ tool.style = "top"
     /\ \/ tool.decl.name # NoName
        \/ tool.decl.schema # "none"
             /\ tool.decl.field \in { "parameters", "input_schema", "inputSchema" }

\* the body of payload.tools.forEach
normalizeTool(st, tool) ==
  IF tool.style = "functionDeclarations" /\ Len(tool.decls) > 0
  THEN pushDeclarations(st, tool.decls)
  ELSE IF isFunctionOrCustom(tool) THEN pushDeclaration(st, tool.decl, "function/custom")
  ELSE [ st EXCEPT !.passthroughTools = Append(st.passthroughTools, tool) ]

RECURSIVE normalizeTools(_, _)
normalizeTools(st, tools) ==
  IF tools = << >> THEN st ELSE normalizeTools(normalizeTool(st, Head(tools)), Tail(tools))

\* normalizeGeminiTools(payload)
normalizeGeminiTools(tools) ==
  normalizeTools([ functionDeclarations |-> << >>, passthroughTools |-> << >>,
                   toolDebugMissing |-> 0, toolDebugSummaries |-> << >> ], tools)

\* a request arrives with its tools
ToolsArrive ==
  /\ payload.op = "none"
  /\ \E tools \in ToolLists :
       payload' = [ op |-> "tools", tools |-> tools,
                    normalized |-> normalizeGeminiTools(<< >>) ]
  /\ payloadFrame

\* applyGeminiTransforms normalizes them
NormalizeTools ==
  /\ payload.op = "tools"
  /\ payload' = [ payload EXCEPT !.op = "normalized",
                                 !.normalized = normalizeGeminiTools(payload.tools) ]
  /\ payloadFrame

NextTools == ToolsArrive \/ NormalizeTools

SpecTools == InitPool /\ [][NextTools]_vars

\* ------------------------------------------ properties of the normalization
\* the entries the code takes for function tools and their declarations
TakenForFunction(tool) ==
  (tool.style = "functionDeclarations" /\ Len(tool.decls) > 0) \/ isFunctionOrCustom(tool)
DeclsOf(tool) ==
  IF tool.style = "functionDeclarations" THEN tool.decls
  ELSE IF isFunctionOrCustom(tool) THEN << tool.decl >>
  ELSE << >>
RECURSIVE DeclsIn(_)
DeclsIn(tools) == IF tools = << >> THEN << >> ELSE DeclsOf(Head(tools)) \o DeclsIn(Tail(tools))
\* an entry that carries a schema or a declaration under any field
CarriesSchema(tool) ==
  \/ tool.style \in { "function", "custom" }
  \/ tool.style = "top" /\ tool.decl.schema # "none"
  \/ tool.style = "functionDeclarations" /\ Len(tool.decls) > 0

Placeholders ==
  { k \in 1..Len(payload.normalized.functionDeclarations) :
      payload.normalized.functionDeclarations[k].parameters = PlaceholderSchema }

\* C35: the declarations of the entries taken for function tools make one
\* functionDeclarations array in input order, with one summary line each;
\* a declaration whose schema is missing, no object or without properties
\* has the placeholder schema; the count returned is the number of
\* declarations whose schema is missing or no object; every other entry
\* passes through unchanged
C35_ToolsNormalized ==
  payload.op = "normalized"
    => LET declared == DeclsIn(payload.tools)
           out == payload.normalized
       IN  /\ Len(out.functionDeclarations) = Len(declared)
           /\ Len(out.toolDebugSummaries) = Len(declared)
           /\ \A k \in 1..Len(declared) :
                /\ declared[k].name # NoName
                     => out.functionDeclarations[k].name = sanitizeName(declared[k].name)
                /\ out.toolDebugSummaries[k].decl = out.functionDeclarations[k].name
                /\ out.functionDeclarations[k].parameters = PlaceholderSchema
                     <=> declared[k].schema \in { "none", "string", "empty" }
           /\ out.toolDebugMissing =
                Cardinality({ k \in 1..Len(declared) :
                                declared[k].schema \in { "none", "string" } })
           /\ out.passthroughTools =
                SelectSeq(payload.tools, LAMBDA t : ~TakenForFunction(t))

\* C35 as stated: the count is the number of declarations that received the
\* placeholder, and every entry that carries a schema is rewritten
C35_CountIsPlaceholders ==
  payload.op = "normalized"
    => /\ payload.normalized.toolDebugMissing = Cardinality(Placeholders)
       /\ \A i \in 1..Len(payload.normalized.passthroughTools) :
            ~CarriesSchema(payload.normalized.passthroughTools[i])

\* the tools of the test: a function whose schema is { type: "object" } and
\* a tool with a name only; both have the placeholder schema, one is counted
C35_Witness ==
  /\ payload.op = "normalized"
  /\ payload.tools = << Tool("function", Decl(<< "t", "." >>, "inputSchema", "empty"), << >>),
                        Tool("top", Decl(<< "t", "." >>, "parameters", "none"), << >>) >>
  /\ Cardinality(Placeholders) = 2
  /\ payload.normalized.toolDebugMissing = 1
  /\ Len(payload.normalized.toolDebugSummaries) = 2


\* ============================ the wait when every account is cooling (C36)
\* pickNext() returned nothing: the pool is not empty and no account of it
\* is selectable
AllRateLimited ==
  ~aborted /\ Len(accounts) > 0 /\ pickNextIndex(accounts, cursor, now) = -1

\* the loop head with the all-rate-limited branch in its steps: waitMs is
\* computed and showToast is awaited before the sleep is started
LoopHeadAwaitingToast ==
  IF pc = "loop" /\ AllRateLimited
  THEN /\ Goto("toastAll", "allRateLimited")
       /\ sleepStart' = 0
       /\ sleepMs' = IF getMinWaitTimeMs(accounts, now) # 0
                       THEN getMinWaitTimeMs(accounts, now)
                       ELSE AllLimitedFallbackMs
       /\ UNCHANGED << now, poolVars, hostAuth, hostWritable, payload, thinkingVars, toast, passVars,
                       lastFailure, lastError, exhausted, aborted, abortedAt, evicted,
                       ghostVars >>
  ELSE LoopHead

\* await showToast(...) returns, whenever the TUI has answered or failed,
\* and sleep(waitMs, abortSignal) is started
ToastAllReturns ==
  /\ pc = "toastAll"
  /\ Goto("waitAll", "toastReturned")
  /\ sleepStart' = now
  /\ UNCHANGED << now, poolVars, hostAuth, hostWritable, payload, thinkingVars, toast,
                  passVars, lastFailure, lastError, exhausted, aborted, abortedAt, evicted,
                  sleepMs, ghostVars >>

NextAllLimited ==
  \/ StartCall
  \/ LoopHeadAwaitingToast
  \/ ToastAllReturns
  \/ WaitAllSettles
  \/ EnsureAuth
  \/ EnsureProject
  \/ SendRequest
  \/ RequestSettles
  \/ Sleep429Settles
  \/ Abort
  \/ Tick

SpecAllLimited == Init /\ [][NextAllLimited]_vars

\* the end of the cooldown that ends first, and what remains of it at t
FirstReset(accs) ==
  CHOOSE r \in { accs[i].rateLimitResetTime : i \in 1..Len(accs) } :
    \A i \in 1..Len(accs) : r <= accs[i].rateLimitResetTime
Waiting == pc \in { "toastAll", "waitAll" }

TransientRefreshFailure == pc = "auth" /\ lastEvent' = "refreshFailed"

\* another account of the pool is selectable at the time of the pass
OtherEligible(id) ==
  \E i \in 1..Len(accounts) : accounts[i].id # id /\ Eligible(accounts[i], now)

\* the pass that follows the failed refresh selects an account
PassAfterRefreshFailure ==
  pc = "loop" /\ lastEvent = "refreshFailed" /\ lastEvent' = "picked"

\* C37: a transient token-refresh failure on the selected account (the
\* refresh returns nothing or throws anything other than invalid_grant)
\* leaves the account in the pool with its cooldown state as it was, issues
\* no upstream request with it in that pass (the loop restarts from the
\* refresh), and when another account of the pool is eligible the next pass
\* selects a different account
C37_TransientRefreshFailureRotates ==
  [][ /\ TransientRefreshFailure =>
           /\ accounts' = accounts
           /\ evicted' = evicted
           /\ pc' = "loop"
           /\ pending' = pending
           /\ tried' = tried
      /\ (PassAfterRefreshFailure /\ OtherEligible(acct)) => acct' # acct ]_vars

\* a pass has selected an account after a transient refresh failure, the
\* last error of the call, in a pool of two accounts that are both eligible
C37_Witness ==
  /\ pc = "auth"
  /\ lastEvent = "picked"
  /\ lastError \in { "RefreshFailed", "refreshError" }
  /\ Len(accounts) = 2
  /\ OtherEligible(acct)
  /\ cursor = (IndexOfId(accounts, acct) + 1) % 2

\* ------------------------------------ a turn whose thinking is signed
\* a model message that calls a tool
CallsTool(msg, dialect) ==
  /\ msg.role = "model"
  /\ \E i \in 1..Len(msg.parts) :
       IF dialect = "contents" THEN isGeminiToolUsePart(msg.parts[i])
       ELSE isMessageToolUse(msg.parts[i])

\* the model message that issued the pending tool calls: the last one that
\* calls a tool, in a conversation that ends in a tool result (0: none)
PendingTurn(contents, dialect) ==
  LET callers == { i \in 1..Len(contents) : CallsTool(contents[i], dialect) }
  IN  IF contents # << >> /\ isToolResultMessage(contents[Len(contents)]) /\ callers # {}
        THEN MaxOf(callers) ELSE 0

\* a request is being prepared for a thinking Claude model whose pending
\* tool calls were issued by a message that carries signed thinking
PendingTurnSigned ==
  /\ Prepares
  /\ PendingTurn(thinkingCall'.contents, thinkingCall'.dialect) # 0
  /\ LET turn == thinkingCall'.contents[PendingTurn(thinkingCall'.contents,
                                                     thinkingCall'.dialect)]
     IN  \E j \in 1..Len(turn.parts) : hasSignedThinkingPart(turn.parts[j])

Recovers == thinkingCall'.op = "prepared" /\ thinkingCall'.recovered

\* the session key holds exact-text entries and no last signed thinking:
\* the recovery has run under it and no response was cached under it since,
\* so every signature it holds was cached before the recovery
RecoveredKey(key) ==
  /\ key \notin DOMAIN lastSignedThinkingBySessionKey
  /\ EntriesOf(signatureCache, key) # {}

\* the thinking blocks of the prepared history that the given one has not
ThinkingAdded(c) ==
  { << i, j >> \in (1..Len(c.contents)) \X (1..2) :
      /\ j <= Len(c.prepared[i].parts)
      /\ isThinking(c.prepared[i].parts[j])
      /\ \A n \in 1..Len(c.contents[i].parts) :
           c.contents[i].parts[n] # c.prepared[i].parts[j] }

\* C39: the last-resort recovery of a request under session key K removes
\* the last signed thinking of K and nothing else: the exact-text entries of
\* K and the entries of every other key are as they were; nothing but the
\* recovery removes a last signed thinking; and a request under a key
\* without last signed thinking has no thinking block put in front of a
\* tool-calling turn whose thinking was stripped
C39_RecoveryForgetsLastSigned ==
  [][ /\ \A k \in DOMAIN lastSignedThinkingBySessionKey :
           k \notin DOMAIN lastSignedThinkingBySessionKey'
             => Recovers /\ thinkingCall'.key = k
      /\ Recovers
           => /\ thinkingCall'.key \notin DOMAIN lastSignedThinkingBySessionKey'
              /\ signatureCache' = signatureCache
              /\ \A k \in DOMAIN lastSignedThinkingBySessionKey :
                   k # thinkingCall'.key
                     => LastOf(lastSignedThinkingBySessionKey', k)
                          = LastOf(lastSignedThinkingBySessionKey, k)
      /\ ( Prepares /\ thinkingCall'.key \notin DOMAIN lastSignedThinkingBySessionKey )
           => \A i \in 1..Len(thinkingCall'.contents) :
                StrippedToolTurn(thinkingCall'.contents[i], thinkingCall'.dialect)
                  => ~messageHasThinking(thinkingCall'.prepared[i])
    ]_vars

\* C39 as stated: a request under a key whose signatures were all cached
\* before its recovery is prepared without a thinking block signed from
\* them
C39_NothingRepairedAfterRecovery ==
  [][ ( Prepares /\ RecoveredKey(thinkingCall'.key) ) => ThinkingAdded(thinkingCall') = {}
    ]_vars

\* the recovery has run under a key that held a last signed thinking; the
\* key holds none now, its exact-text entries are kept and another key
\* still holds its own last signed thinking
C39_Witness ==
  /\ thinkingCall.op = "prepared"
  /\ thinkingCall.recovered
  /\ RecoveredKey(thinkingCall.key)
  /\ \E k \in DOMAIN lastSignedThinkingBySessionKey : k # thinkingCall.key

====
